---- MODULE Spec2Model ----
(***************************************************************************)
(* Model of the animation-clip registry of the 3D Animation Merger         *)
(* (src/scripts/main.js, class App): the two clip lists                    *)
(* this.originalAnimations / this.object.animations, the "In Place"        *)
(* root-motion removal, rename / delete / reorder of list items, the       *)
(* asynchronous file loads that feed the lists, playback activation and    *)
(* the hand-over of the clip list to the GLB encoder.                      *)
(*                                                                         *)
(* JavaScript strings are sequences of one-character strings, so that      *)
(* toLowerCase, includes, split and trim are computed, not assumed.        *)
(* Durations are in milliseconds; keyframe values are integers.            *)
(***************************************************************************)
EXTENDS Integers, Sequences, FiniteSets, TLC

\* ------------------------------------------------------------------------
\* Bounds of the model
\* ------------------------------------------------------------------------
\* largest number of entries of this.originalAnimations that is explored
MaxClips == 2
\* largest number of load operations in flight at once
MaxOps == 1
\* largest number of files in one selection / one drop
MaxSel == 1
\* files in one selection or drop where several files are explored
MaxFiles == 2
\* texture objects created in one run
MaxTextures == 3
\* texture files read or decoded at the same time
MaxImageLoads == 1
\* largest number of keyframes of a track in the track universe
MaxKeys == 2
\* exports started in one session
MaxExports == 2
\* load operations in flight at once where their interleaving is explored
MaxInFlight == 2
\* clips in the list where several load operations are in flight
MaxInFlightClips == 4
\* texture files pending at once where their interleaving is explored
MaxImagesInFlight == 2

\* ------------------------------------------------------------------------
\* JavaScript string helpers
\* ------------------------------------------------------------------------
\* String.prototype.toLowerCase on one character
LowerChar(c) ==
    CASE c = "A" -> "a" [] c = "B" -> "b" [] c = "C" -> "c" [] c = "D" -> "d"
      [] c = "E" -> "e" [] c = "F" -> "f" [] c = "G" -> "g" [] c = "H" -> "h"
      [] c = "I" -> "i" [] c = "J" -> "j" [] c = "K" -> "k" [] c = "L" -> "l"
      [] c = "M" -> "m" [] c = "N" -> "n" [] c = "O" -> "o" [] c = "P" -> "p"
      [] c = "Q" -> "q" [] c = "R" -> "r" [] c = "S" -> "s" [] c = "T" -> "t"
      [] c = "U" -> "u" [] c = "V" -> "v" [] c = "W" -> "w" [] c = "X" -> "x"
      [] c = "Y" -> "y" [] c = "Z" -> "z" [] OTHER -> c

\* String.prototype.toLowerCase
ToLowerCase(s) == [k \in 1..Len(s) |-> LowerChar(s[k])]

\* String.prototype.includes
Includes(s, sub) ==
    \E k \in 0..(Len(s) - Len(sub)) : SubSeq(s, k + 1, k + Len(sub)) = sub

\* String.prototype.endsWith
EndsWith(s, suf) ==
    /\ Len(suf) <= Len(s)
    /\ SubSeq(s, Len(s) - Len(suf) + 1, Len(s)) = suf

\* positions of the dots of a string
DotPositions(s) == {k \in 1..Len(s) : s[k] = "."}

\* s.split('.')[0] : the part before the first dot
SplitFirst(s) ==
    IF DotPositions(s) = {} THEN s
    ELSE SubSeq(s, 1, (CHOOSE k \in DotPositions(s) :
                         \A m \in DotPositions(s) : k <= m) - 1)

\* s.split('.').pop() : the part after the last dot
SplitLast(s) ==
    IF DotPositions(s) = {} THEN s
    ELSE SubSeq(s, (CHOOSE k \in DotPositions(s) :
                      \A m \in DotPositions(s) : k >= m) + 1, Len(s))

\* s.replace(/\.[^/.]+$/, '') : the name without its last extension
StripExtension(s) ==
    IF DotPositions(s) = {} THEN s
    ELSE LET k == CHOOSE p \in DotPositions(s) : \A m \in DotPositions(s) : p >= m
         IN  IF k < Len(s) /\ \A m \in (k + 1)..Len(s) : s[m] # "/"
             THEN SubSeq(s, 1, k - 1)
             ELSE s

\* String.prototype.trim, on the blank character
RECURSIVE TrimLeft(_)
TrimLeft(s) == IF s # <<>> /\ Head(s) = " " THEN TrimLeft(Tail(s)) ELSE s

RECURSIVE TrimRight(_)
TrimRight(s) ==
    IF s # <<>> /\ s[Len(s)] = " " THEN TrimRight(SubSeq(s, 1, Len(s) - 1)) ELSE s

Trim(s) == TrimRight(TrimLeft(s))

\* decimal digits of a small index, as in the template literal `${i}`
DigitString(n) ==
    CASE n = 0 -> <<"0">> [] n = 1 -> <<"1">> [] n = 2 -> <<"2">>
      [] n = 3 -> <<"3">> [] n = 4 -> <<"4">> [] n = 5 -> <<"5">>
      [] n = 6 -> <<"6">> [] n = 7 -> <<"7">> [] n = 8 -> <<"8">>
      [] OTHER -> <<"9">>

\* ------------------------------------------------------------------------
\* String literals used by the code
\* ------------------------------------------------------------------------
sPosition == <<"p","o","s","i","t","i","o","n">>
sHips == <<"h","i","p","s">>
sRoot == <<"r","o","o","t">>
sPelvis == <<"p","e","l","v","i","s">>
sGlb == <<"g","l","b">>
sGltf == <<"g","l","t","f">>
sDotFbx == <<".","f","b","x">>
sDotGlb == <<".","g","l","b">>
sDotGltf == <<".","g","l","t","f">>
sAnimationUnderscore == <<"A","n","i","m","a","t","i","o","n","_">>

\* ------------------------------------------------------------------------
\* Tracks and clips (THREE.KeyframeTrack, THREE.AnimationClip)
\* ------------------------------------------------------------------------
\* KeyframeTrack.getValueSize : values per keyframe
GetValueSize(track) == Len(track.values) \div Len(track.times)

\* the test of makeAnimationsInPlace that selects a root position track
IsRootPositionTrack(track) ==
    LET trackName == ToLowerCase(track.name)
    IN  /\ Includes(trackName, sPosition)
        /\ \/ Includes(trackName, sHips)
           \/ Includes(trackName, sRoot)
           \/ Includes(trackName, sPelvis)

\* variant of ClampXZ that leaves the z component alone
ClampXOnly(values) ==
    [k \in 1..Len(values) |-> IF (k - 1) % 3 = 0 THEN values[1] ELSE values[k]]

\* variant of ClampXZ that takes startX from values[2] and startZ from values[0]
ClampXZSwapped(values) ==
    [k \in 1..Len(values) |->
        IF (k - 1) % 3 = 0 THEN values[3]
        ELSE IF (k - 1) % 3 = 2 THEN values[1]
        ELSE values[k]]

\* the inner loop of makeAnimationsInPlace on the values of one track
ClampXZ(values) ==
    [k \in 1..Len(values) |->
        IF (k - 1) % 3 = 0 THEN values[1]
        ELSE IF (k - 1) % 3 = 2 THEN values[3]
        ELSE values[k]]

\* the body of the track loop of makeAnimationsInPlace
TrackInPlace(track) ==
    IF IsRootPositionTrack(track) /\ GetValueSize(track) = 3
    THEN [track EXCEPT !.values = ClampXZ(track.values)]
    ELSE track

\* makeAnimationsInPlace on one clip: clone, then rewrite the clone's tracks
ClipInPlace(clip) ==
    [clip EXCEPT !.tracks = [k \in 1..Len(clip.tracks) |-> TrackInPlace(clip.tracks[k])]]

\* makeAnimationsInPlace(animations) : the returned array
MakeAnimationsInPlace(animations) ==
    IF Len(animations) = 0 THEN animations
    ELSE [k \in 1..Len(animations) |-> ClipInPlace(animations[k])]

\* variant of ArgumentAfterInPlace for a loop that writes the values of clip
ArgumentWrittenInPlace(animations) == MakeAnimationsInPlace(animations)

\* makeAnimationsInPlace(animations) : the argument array after the call; the
\* loop writes the values of newClip = clip.clone(), never those of clip
ArgumentAfterInPlace(animations) == animations


\* AnimationClip.clone() : a clip of this.originalAnimations made from a clip
Clone(clip) == [name |-> clip.name, tracks |-> clip.tracks, duration |-> clip.duration]

\* ------------------------------------------------------------------------
\* Files the user can select, and what the FBX / GLTF parser returns for them
\* ------------------------------------------------------------------------
trkHipsPosition ==
    [name |-> <<"H","i","p","s",".","p","o","s","i","t","i","o","n">>,
     times |-> <<0, 500>>, values |-> <<1, 2, 3, 4, 5, 6>>]
trkRootPosition ==
    [name |-> <<"R","O","O","T",".","p","o","s","i","t","i","o","n">>,
     times |-> <<0, 400>>, values |-> <<0, 1, 0, 7, 2, 9>>]
trkSpineQuaternion ==
    [name |-> <<"S","p","i","n","e",".","q","u","a","t","e","r","n","i","o","n">>,
     times |-> <<0>>, values |-> <<0, 0, 0, 1>>]

FileIds == 1..3

\* the model files used where playback is explored: Idle.GLB and a file of
\* three short clips
PlayerFileIds == {2, 4}

\* the files used where selections of several files are explored: Walk.v2.fbx
\* and the two files no loader can parse
LoadFileIds == {1, 3, 5}

\* the model files used where textures are explored: their materials come
\* with textures
TextureFileIds == {6, 7}

\* file.name
FileName(f) ==
    CASE f = 1 -> <<"W","a","l","k",".","v","2",".","f","b","x">>
      [] f = 2 -> <<"I","d","l","e",".","G","L","B">>
      [] f = 4 -> <<"P","o","s","e","s",".","g","l","t","f">>
      [] f = 5 -> <<"b","a","d",".","g","l","b">>
      [] f = 6 -> <<"H","e","r","o",".","g","l","b">>
      [] f = 7 -> <<"C","r","o","w","d",".","f","b","x">>
      [] f = 8 -> <<"P","r","o","p",".","f","b","x">>
      [] OTHER -> <<"b","a","d",".","f","b","x">>

\* whether fbxLoader.parse / gltfLoader.parse succeeds on the file's contents
FileParses(f) == f # 3 /\ f # 5

\* the animations of the parsed file, named as the parser names them
FileClips(f) ==
    CASE f = 1 -> << [name |-> <<"m","i","x">>, tracks |-> <<trkHipsPosition>>,
                      duration |-> 800] >>
      [] f = 2 -> << [name |-> <<"T","a","k","e">>,
                      tracks |-> <<trkRootPosition, trkSpineQuaternion>>,
                      duration |-> 1200],
                     [name |-> <<"T","P","o","s","e">>,
                      tracks |-> <<trkSpineQuaternion>>, duration |-> 0] >>
      [] f = 4 -> << [name |-> <<"C","r","o","u","c","h">>,
                      tracks |-> <<trkSpineQuaternion>>, duration |-> 5],
                     [name |-> <<"B","l","i","n","k">>,
                      tracks |-> <<trkSpineQuaternion>>, duration |-> 10],
                     [name |-> <<"N","o","d">>,
                      tracks |-> <<trkHipsPosition>>, duration |-> 11] >>
      [] OTHER -> << >>

\* file.name.split('.').pop().toLowerCase()
Extension(f) == ToLowerCase(SplitLast(FileName(f)))

\* the loader chosen by onSourceChange / onAnimationChange / onAnimationDrop
IsGltfFile(f) == Extension(f) = sGlb \/ Extension(f) = sGltf

\* the filter of onAnimationDrop on the dropped files
IsModelFile(f) ==
    LET ext == ToLowerCase(FileName(f))
    IN  EndsWith(ext, sDotFbx) \/ EndsWith(ext, sDotGlb) \/ EndsWith(ext, sDotGltf)

\* animation.name = file.name.split('.')[0]
ClipNameOf(f) == SplitFirst(FileName(f))

\* the texts a user types into the name field of a list item
RenameInputs == { <<" ","X">> }


\* ------------------------------------------------------------------------
\* State of the App object
\* ------------------------------------------------------------------------
VARIABLES
    hasObject,            \* this.object is set
    originalAnimations,   \* this.originalAnimations ([name, tracks, duration])
    animations,           \* this.object.animations ([src, name, tracks, duration])
    inPlace,              \* this.$inPlaceCheckbox.checked
    mixer,                \* this.mixer is set
    animation,            \* this.animation : the active AnimationAction
    isPlaying,            \* this.isPlaying
    isLooping,            \* this.isLooping
    draggedItem,          \* this.draggedItem : 0 null, -1 a removed container, k item k
    draggedIndex,         \* this.draggedIndex : 0 null, k the k-th item
    loads,                \* load operations whose file read / parse is pending
    last,                 \* history: the handler that ran last, its arguments and,
                          \* for an export, the options.animations it handed over
    trackIn,              \* input of the stand-alone run of makeAnimationsInPlace
    trackOut,             \* its results, one per application
    textureType,          \* this.textureType : "shaded" or "pbr"
    usePackedTexture,     \* this.usePackedTexture
    packedTexture,        \* this.packedTexture : a texture object, 0 for null
    pbrTextures,          \* this.pbrTextures : map type -> texture object or 0
    customTexture,        \* this.customTexture
    meshes,               \* the meshes of this.object with their materials
    textures,             \* the texture objects created so far; a texture
                          \* object is its position in this sequence
    imageLoads,           \* texture files whose read / decoding is pending
    filenameInput,        \* this.$filenameInput.value
    exportCtl,            \* this.$export and the export in progress
    labelLoading,         \* the class 'loading' of the label of this.$source
    dialogOpen,           \* the native open dialog of this.$source is showing
    inputFiles,           \* this.$source.files as set by the adapter (paths)
    windowStore           \* the key windowState of the store of window-state.js

\* the state of the page around the viewer
shellVars == <<filenameInput, exportCtl, labelLoading, dialogOpen, inputFiles,
               windowStore>>

\* the state of the texture panel and of the materials of the model
texVars == <<textureType, usePackedTexture, packedTexture, pbrTextures,
             customTexture, meshes, textures, imageLoads>>

vars == <<hasObject, originalAnimations, animations, inPlace, mixer, animation,
          isPlaying, isLooping, draggedItem, draggedIndex, loads,
          last, trackIn, trackOut, texVars, shellVars>>

appVars == <<hasObject, originalAnimations, animations, inPlace, mixer, animation,
             isPlaying, isLooping, draggedItem, draggedIndex, loads,
             last, texVars, shellVars>>

\* the entry a splice inserts when animations[draggedIndex] is undefined
Undefined == [src |-> 0, name |-> << >>, tracks |-> << >>, duration |-> 0]

\* this.animation before any clip was activated
NoAnimation ==
    [clip |-> Undefined, attached |-> FALSE, loop |-> "none", clamp |-> FALSE,
     running |-> FALSE, time |-> 0, paused |-> FALSE, enabled |-> TRUE]

\* no handler has run yet
NoOp == [op |-> "init", a |-> 0, b |-> 0, out |-> << >>]

\* ------------------------------------------------------------------------
\* The clip objects of this.object.animations
\* ------------------------------------------------------------------------
\* src is the position in this.originalAnimations of the clip an object was
\* made from.  No two objects of one list have the same src (SrcUnique), so
\* src also tells the objects of the list apart; action.attached tells
\* whether the clip object of the active action is an object of the list.

\* new clip objects with the contents of clips, made from the originals at
\* positions first+1, first+2, ...
NewObjects(clips, first) ==
    [k \in 1..Len(clips) |->
        [src |-> first + k, name |-> clips[k].name,
         tracks |-> clips[k].tracks, duration |-> clips[k].duration]]

\* the active action once the list has become list: its clip object may
\* have left the list
Detach(action, list) ==
    [action EXCEPT !.attached = @ /\ \E k \in 1..Len(list) : list[k].src = action.clip.src]

\* AnimationAction.reset() : time 0, not paused, enabled
Reset(action) == [action EXCEPT !.time = 0, !.paused = FALSE, !.enabled = TRUE]

\* AnimationAction.stop() : the action leaves the mixer and is reset
Stopped(action) == Reset([action EXCEPT !.running = FALSE])

\* the active action once every object of the list has been replaced
DetachAll(action) == [action EXCEPT !.attached = FALSE]

\* variant of IndexOf that looks for a clip of the same name
IndexOfName(list, clip) ==
    IF \E k \in 1..Len(list) : list[k].name = clip.name
    THEN CHOOSE k \in 1..Len(list) :
            list[k].name = clip.name /\ \A m \in 1..(k - 1) : list[m].name # clip.name
    ELSE 0

\* Array.prototype.indexOf(animation) : -1 (here 0) when absent
IndexOf(list, clip) ==
    IF \E k \in 1..Len(list) : list[k].src = clip.src
    THEN CHOOSE k \in 1..Len(list) :
            list[k].src = clip.src /\ \A m \in 1..(k - 1) : list[m].src # clip.src
    ELSE 0

\* list.splice(pos, 1) with pos counted from 1; position 0 stands for the
\* index -1 that indexOf returns, which splice takes as the last entry
SpliceOut(list, pos) ==
    LET p == IF pos = 0 THEN Len(list) ELSE pos
    IN  IF p \in 1..Len(list)
        THEN SubSeq(list, 1, p - 1) \o SubSeq(list, p + 1, Len(list))
        ELSE list

\* list.splice(pos, 0, item) with pos counted from 1
SpliceIn(list, pos, item) ==
    LET p == IF pos > Len(list) + 1 THEN Len(list) + 1 ELSE pos
    IN  SubSeq(list, 1, p - 1) \o <<item>> \o SubSeq(list, p, Len(list))

\* the list items updateUI builds: it throws at the first undefined entry
UICount(list) ==
    IF \E k \in 1..Len(list) : list[k] = Undefined
    THEN (CHOOSE k \in 1..Len(list) :
            list[k] = Undefined /\ \A m \in 1..(k - 1) : list[m] # Undefined) - 1
    ELSE Len(list)

\* updateUI removes every container: a remembered dragged container is stale
UpdateUIDragged(item) == IF item = 0 THEN 0 ELSE -1


\* ------------------------------------------------------------------------
\* Textures and materials
\* ------------------------------------------------------------------------
\* THREE.SRGBColorSpace, THREE.LinearSRGBColorSpace, THREE.NoColorSpace
SRGBColorSpace == "srgb"
LinearSRGBColorSpace == "srgb-linear"
NoColorSpace == ""

\* the keys of this.pbrTextures, which are the texture slots of a material
MapTypes == {"map", "normalMap", "metalnessMap", "roughnessMap", "aoMap", "emissiveMap"}

\* the slots the red, green and blue channel of a packed texture feed
PackedMapTypes == {"aoMap", "roughnessMap", "metalnessMap"}

\* this.pbrTextures of the constructor
NoTextures == [m \in MapTypes |-> 0]

\* a texture object: its colorSpace tag, whether dispose() was called on it
\* and, as history, the input it came by
NewTexture(colorSpace, origin) ==
    [colorSpace |-> colorSpace, origin |-> origin, disposed |-> FALSE]

\* new THREE.Color(0xffffff)
White == 16777215

\* a material of the given class with a base-color and an emissive map;
\* look is its color (0xRRGGBB), its transparent flag and its opacity in
\* hundredths
Material(kind, map, emissiveMap, look) ==
    [kind |-> kind,
     maps |-> [NoTextures EXCEPT !["map"] = map, !["emissiveMap"] = emissiveMap],
     color |-> look.color, transparent |-> look.transparent, opacity |-> look.opacity]

\* color, transparent and opacity of a material, as the constructors of the
\* replacement materials are given them
LookOf(mat) ==
    [color |-> mat.color, transparent |-> mat.transparent, opacity |-> mat.opacity]

\* the look of the materials of the files: an opaque grey one (0x808080)
\* and a half-transparent red one (0xff0000)
OpaqueGrey == [color |-> 8421504, transparent |-> FALSE, opacity |-> 100]
GlassRed == [color |-> 16711680, transparent |-> TRUE, opacity |-> 50]

\* the texture objects the loader creates for the maps of a file, each with
\* the tag the loader gave it
FileTextures(f) ==
    CASE f = 6 -> << NewTexture(LinearSRGBColorSpace, "model"),
                     NewTexture(NoColorSpace, "model") >>
      [] f = 7 -> << NewTexture(LinearSRGBColorSpace, "model") >>
      [] f = 8 -> << NewTexture(NoColorSpace, "model") >>
      [] OTHER -> << >>

\* the meshes of the parsed file; its texture objects are base+1, base+2.
\* Hero.glb has one mesh with one material that has a base-color and an
\* emissive map, Crowd.fbx one mesh with an array of two materials of which
\* the first has an emissive map, Prop.fbx one mesh with one Phong material
\* that has a base-color map, every other file one mesh with one untextured
\* material
FileMeshes(f, base) ==
    CASE f = 6 -> << [isArray |-> FALSE,
                      material |-> << Material("MeshStandardMaterial", base + 1, base + 2,
                                               GlassRed) >>] >>
      [] f = 7 -> << [isArray |-> TRUE,
                      material |-> << Material("MeshPhongMaterial", 0, base + 1, GlassRed),
                                      Material("MeshPhongMaterial", 0, 0, OpaqueGrey) >>] >>
      [] f = 8 -> << [isArray |-> FALSE,
                      material |-> << Material("MeshPhongMaterial", base + 1, 0,
                                               GlassRed) >>] >>
      [] OTHER -> << [isArray |-> FALSE,
                      material |-> << Material(IF IsGltfFile(f) THEN "MeshBasicMaterial"
                                               ELSE "MeshPhongMaterial", 0, 0,
                                               OpaqueGrey) >>] >>

\* the texture objects bound to one of the slots of a material of ms
SlotTextures(ms, slots) ==
    UNION { { ms[i].material[j].maps[m] : j \in 1..Len(ms[i].material), m \in slots }
            : i \in 1..Len(ms) } \ {0}

\* tex.colorSpace = THREE.SRGBColorSpace on the texture objects ids
ToSRGB(heap, ids) ==
    [t \in 1..Len(heap) |->
        IF t \in ids THEN [heap[t] EXCEPT !.colorSpace = SRGBColorSpace] ELSE heap[t]]

\* tex.dispose() on the texture objects ids
Dispose(heap, ids) ==
    [t \in 1..Len(heap) |->
        IF t \in ids THEN [heap[t] EXCEPT !.disposed = TRUE] ELSE heap[t]]

\* the traverse of processLoadedModel: the base-color map of every material,
\* of a single material and of an array, is tagged sRGB
MapsTaggedSRGB(ms, heap) == ToSRGB(heap, SlotTextures(ms, {"map"}))

\* child.material of the meshes fixNonPBRMaterials reads map and emissiveMap
\* of: on an array of materials both properties are undefined
SingleMaterialMeshes(ms) == SelectSeq(ms, LAMBDA mesh : ~mesh.isArray)

\* fixNonPBRMaterials : the tags it writes
FixedTextures(ms, heap) ==
    ToSRGB(heap, SlotTextures(SingleMaterialMeshes(ms), {"map", "emissiveMap"}))

IsNonPBR(mat) ==
    mat.kind \in {"MeshPhongMaterial", "MeshLambertMaterial", "MeshBasicMaterial"}

\* fixNonPBRMaterials : the materials it leaves; a non-PBR single material
\* is replaced by a MeshBasicMaterial that takes over the base-color map
FixNonPBRMaterials(ms) ==
    [i \in 1..Len(ms) |->
        IF ms[i].isArray \/ ~IsNonPBR(ms[i].material[1])
        THEN ms[i]
        ELSE [ms[i] EXCEPT !.material =
                 << Material("MeshBasicMaterial", ms[i].material[1].maps["map"], 0,
                             LookOf(ms[i].material[1])) >>]]

\* applyTextureToModel(texture)
ApplyTextureToModel(ms, texture) ==
    [i \in 1..Len(ms) |->
        [ms[i] EXCEPT !.material =
            [j \in 1..Len(ms[i].material) |->
                [ms[i].material[j] EXCEPT !.maps["map"] = texture]]]]

\* applyPBRTexturesToModel, the conversion: a material that is not a PBR
\* material is replaced by a new MeshStandardMaterial without maps
StandardMaterial(mat) ==
    IF mat.kind \in {"MeshStandardMaterial", "MeshPhysicalMaterial"}
    THEN mat
    ELSE Material("MeshStandardMaterial", 0, 0, LookOf(mat))

\* applyPBRTexturesToModel, the maps of one material: a slot is written when
\* a texture is there for it
BoundMaps(maps, set, packedMode, packed) ==
    [m \in MapTypes |->
        IF m \in PackedMapTypes /\ packedMode /\ packed # 0 THEN packed
        ELSE IF set[m] # 0 THEN set[m]
        ELSE maps[m]]

ApplyPBRTexturesToModel(ms, set, packedMode, packed) ==
    [i \in 1..Len(ms) |->
        [ms[i] EXCEPT !.material =
            [j \in 1..Len(ms[i].material) |->
                [StandardMaterial(ms[i].material[j]) EXCEPT
                    !.maps = BoundMaps(StandardMaterial(ms[i].material[j]).maps,
                                       set, packedMode, packed)]]]]

\* the traverse of processLoadedModel: the color of a single material
\* without a base-color map is set to white; an array of materials has
\* neither a map nor a color property
ColorsOfUnmapped(ms) ==
    [i \in 1..Len(ms) |->
        IF ~ms[i].isArray /\ ms[i].material[1].maps["map"] = 0
        THEN [ms[i] EXCEPT !.material = << [ms[i].material[1] EXCEPT !.color = White] >>]
        ELSE ms[i]]

\* applyPBRTexturesToModel, the textures it disposes: what a slot of a
\* material holds when the slot is written, after the conversion
ReleasedByPBR(ms, set, packedMode, packed) ==
    UNION { { StandardMaterial(ms[i].material[j]).maps[m] :
                 m \in { w \in MapTypes : \/ w \in PackedMapTypes /\ packedMode /\ packed # 0
                                          \/ set[w] # 0 },
                 j \in 1..Len(ms[i].material) }
            : i \in 1..Len(ms) } \ {0}

\* disposeObject : the maps it disposes, which are all but the aoMap
DisposedWithObject(ms) == SlotTextures(ms, MapTypes \ {"aoMap"})

\* The texture objects after the model of file f is in: disposeObject on the
\* model that was there, the tags of processLoadedModel and
\* fixNonPBRMaterials, and what the textures of the current type displace
LoadedTextures(f) ==
    LET base == Len(textures)
        kept == IF hasObject THEN Dispose(textures, DisposedWithObject(meshes))
                ELSE textures
        parsed == FileMeshes(f, base)
        tagged == MapsTaggedSRGB(parsed, kept \o FileTextures(f))
        heap == FixedTextures(parsed, tagged)
        fixed == FixNonPBRMaterials(ColorsOfUnmapped(parsed))
    IN  IF textureType = "shaded" /\ customTexture # 0
        THEN Dispose(heap, SlotTextures(fixed, {"map"}))
        ELSE IF textureType = "pbr"
        THEN Dispose(heap, ReleasedByPBR(fixed, pbrTextures, usePackedTexture,
                                         packedTexture))
        ELSE heap

\* processLoadedModel : the meshes of the new model, after fixNonPBRMaterials
\* and the textures of the current texture type
LoadedMeshes(f) ==
    LET fixed == FixNonPBRMaterials(ColorsOfUnmapped(FileMeshes(f, Len(textures))))
    IN  IF textureType = "shaded" /\ customTexture # 0
        THEN ApplyTextureToModel(fixed, customTexture)
        ELSE IF textureType = "pbr"
        THEN ApplyPBRTexturesToModel(fixed, pbrTextures, usePackedTexture, packedTexture)
        ELSE fixed


\* ------------------------------------------------------------------------
\* Load operations in flight
\* ------------------------------------------------------------------------
\* A load operation is a call of onSourceChange, onAnimationChange or
\* onAnimationDrop that waits for the contents of a file.
\*   kind      : the handler
\*   remaining : the files of the selection not yet handled, the one being
\*               read included
\*   asSource  : the file being read goes through onSourceChange (no model
\*               was set when its iteration started)
\*   added     : history, the clips the earlier files of the selection pushed
\* The contents of a file are not looked at before its read completes, so
\* the file is drawn when the read completes.
NewLoad(kind, remaining, asSource) ==
    [kind |-> kind, remaining |-> remaining, asSource |-> asSource, added |-> 0]

\* clips a file contributes when it is parsed
ClipCount(f) == IF FileParses(f) THEN Len(FileClips(f)) ELSE 0

RemoveLoad(ops, n) == SubSeq(ops, 1, n - 1) \o SubSeq(ops, n + 1, Len(ops))

\* ------------------------------------------------------------------------
\* Initial state: the App constructor
\* ------------------------------------------------------------------------
AppInit ==
    /\ hasObject = FALSE
    /\ originalAnimations = << >>
    /\ animations = << >>
    /\ inPlace = FALSE
    /\ mixer = FALSE
    /\ animation = NoAnimation
    /\ isPlaying = FALSE
    /\ isLooping = TRUE
    /\ draggedItem = 0
    /\ draggedIndex = 0
    /\ loads = << >>
    /\ last = NoOp
    /\ textureType = "shaded"
    /\ usePackedTexture = FALSE
    /\ packedTexture = 0
    /\ pbrTextures = NoTextures
    /\ customTexture = 0
    /\ meshes = << >>
    /\ textures = << >>
    /\ imageLoads = << >>
    /\ exportCtl = [disabled |-> FALSE, loading |-> FALSE, success |-> FALSE,
                    pending |-> "none", parses |-> 0, saves |-> 0]
    /\ labelLoading = FALSE
    /\ dialogOpen = FALSE
    /\ inputFiles = << >>
    /\ windowStore = << >>

\* The file name field is read by exportGLB only and is written by the first
\* load of a source model that finds it empty.  The sessions of Init start
\* right after the user has typed the name "merged" into it, so that the field
\* stays what it is; the sessions that start with the empty field of the
\* constructor are those of InitExport.
Init ==
    /\ AppInit
    /\ filenameInput = <<"m","e","r","g","e","d">>
    /\ trackIn = << >>
    /\ trackOut = << >>

\* ------------------------------------------------------------------------
\* Handlers that start a load
\* ------------------------------------------------------------------------
\* onSourceChange, up to the read of files[0]; nothing in the handler looks
\* at the operations already in flight
SourceChosen ==
    /\ loads' = Append(loads, NewLoad("source", 1, TRUE))
    /\ labelLoading' = TRUE
    /\ last' = [op |-> "source", a |-> 0, b |-> 0, out |-> << >>]
    /\ UNCHANGED <<hasObject, originalAnimations, animations, inPlace, mixer,
                   animation, isPlaying, isLooping, draggedItem, draggedIndex,
                   trackIn, trackOut, texVars, filenameInput, exportCtl,
                   dialogOpen, inputFiles, windowStore>>

\* the handler, explored with at most MaxOps operations in flight
OnSourceChange == Len(loads) < MaxOps /\ SourceChosen

\* onAnimationChange on a selection of count files, up to the read of the first
AnimationFilesChosen(count) ==
    /\ loads' = Append(loads, NewLoad("input", count, ~hasObject))
    /\ last' = [op |-> "input", a |-> 0, b |-> 0, out |-> << >>]
    /\ UNCHANGED <<hasObject, originalAnimations, animations, inPlace, mixer,
                   animation, isPlaying, isLooping, draggedItem, draggedIndex,
                   trackIn, trackOut, texVars, shellVars>>

OnAnimationChange(count) == Len(loads) < MaxOps /\ AnimationFilesChosen(count)

\* onAnimationDrop on count dropped model files, up to the read of the first
AnimationFilesDropped(count) ==
    /\ loads' = Append(loads, NewLoad("drop", count, ~hasObject))
    /\ last' = [op |-> "drop", a |-> 0, b |-> 0, out |-> << >>]
    /\ UNCHANGED <<hasObject, originalAnimations, animations, inPlace, mixer,
                   animation, isPlaying, isLooping, draggedItem, draggedIndex,
                   trackIn, trackOut, texVars, shellVars>>

OnAnimationDrop(count) == Len(loads) < MaxOps /\ AnimationFilesDropped(count)

\* ------------------------------------------------------------------------
\* Completion of the read / parse of a model file (onSourceChange)
\* ------------------------------------------------------------------------
\* this.originalAnimations after processLoadedModel
StoredOriginals(parsed, checked) ==
    LET clones == [k \in 1..Len(parsed) |-> Clone(parsed[k])]
    IN  IF checked THEN ArgumentAfterInPlace(clones) ELSE clones

\* the clips of this.object.animations after processLoadedModel
ProcessLoadedModel(parsed, checked) ==
    NewObjects(IF checked THEN MakeAnimationsInPlace(parsed) ELSE parsed, 0)

\* onSourceChange, the file name field: it takes the name of the file without
\* its extension when it is empty.  The handler writes it before it reads the
\* file; the file is drawn when the read completes, and so is the name
AutoFilled(value, f) == IF value = << >> THEN StripExtension(FileName(f)) ELSE value

\* the parse succeeded: the old model is disposed, the new one installed
SourceLoaded(n, f) ==
    /\ n \in 1..Len(loads)
    /\ loads[n].asSource
    /\ loads[n].kind = "drop" => IsModelFile(f)
    /\ Len(textures) + Len(FileTextures(f)) <= MaxTextures
    /\ LET parsed == FileClips(f)
       IN  /\ FileParses(f)
           /\ hasObject' = TRUE
           /\ meshes' = LoadedMeshes(f)
           /\ textures' = LoadedTextures(f)
           /\ originalAnimations' = StoredOriginals(parsed, inPlace)
           /\ animations' = ProcessLoadedModel(parsed, inPlace)
           /\ mixer' = (Len(parsed) > 0)
           /\ animation' = DetachAll(IF hasObject THEN Stopped(animation) ELSE animation)
           /\ draggedItem' = UpdateUIDragged(draggedItem)
           /\ last' = [op |-> "model", a |-> f,
                       b |-> IF last.op = "toggle" THEN 1 ELSE 0, out |-> << >>]
    /\ loads' = RemoveLoad(loads, n)
    /\ filenameInput' = AutoFilled(filenameInput, f)
    /\ labelLoading' = IF loads[n].kind = "source" THEN FALSE ELSE labelLoading
    /\ UNCHANGED <<exportCtl, dialogOpen, inputFiles, windowStore>>
    /\ UNCHANGED <<inPlace, isPlaying, isLooping, draggedIndex,
                   trackIn, trackOut, textureType, usePackedTexture,
                   packedTexture, pbrTextures, customTexture, imageLoads>>

\* the parse failed: the GLTF error callback, or the catch of the FBX branch
\* (which has already disposed the old model)
SourceFailed(n, f) ==
    /\ n \in 1..Len(loads)
    /\ loads[n].asSource
    /\ loads[n].kind = "drop" => IsModelFile(f)
    /\ LET disposes == hasObject /\ ~IsGltfFile(f)
       IN  /\ ~FileParses(f)
           /\ mixer' = IF disposes THEN FALSE ELSE mixer
           /\ animation' = IF disposes THEN Stopped(animation) ELSE animation
           /\ last' = [op |-> "modelfail", a |-> f, b |-> 0, out |-> << >>]
    /\ loads' = RemoveLoad(loads, n)
    /\ filenameInput' = AutoFilled(filenameInput, f)
    /\ labelLoading' = IF loads[n].kind = "source" THEN FALSE ELSE labelLoading
    /\ UNCHANGED <<exportCtl, dialogOpen, inputFiles, windowStore>>
    /\ textures' = IF hasObject /\ ~IsGltfFile(f)
                    THEN Dispose(textures, DisposedWithObject(meshes))
                    ELSE textures
    /\ UNCHANGED <<hasObject, originalAnimations, animations, inPlace, isPlaying,
                   isLooping, draggedItem, draggedIndex,
                   trackIn, trackOut, textureType, usePackedTexture, packedTexture,
                   pbrTextures, customTexture, meshes, imageLoads>>


\* ------------------------------------------------------------------------
\* Completion of the read / parse of an animation file
\* (the loop bodies of onAnimationChange and onAnimationDrop)
\* ------------------------------------------------------------------------
\* the parsed clips after  animation.name = file.name.split('.')[0]
NamedClips(f) ==
    [k \in 1..Len(FileClips(f)) |-> [FileClips(f)[k] EXCEPT !.name = ClipNameOf(f)]]

\* the entries pushed to this.originalAnimations
PushedOriginals(f) == [k \in 1..Len(NamedClips(f)) |-> Clone(NamedClips(f)[k])]

\* variant of PushedAnimations that does not look at the checkbox
PushedAnimationsUnprocessed(f, checked, first) == NewObjects(NamedClips(f), first)

\* the entries pushed to this.object.animations
PushedAnimations(f, checked, first) ==
    NewObjects(IF checked THEN MakeAnimationsInPlace(NamedClips(f)) ELSE NamedClips(f), first)

\* the operation after the file at its head is done; a handler of a dropped
\* FBX file that throws never resolves its promise, so the operation ends there
AfterFile(ops, n, f, thrown) ==
    IF ops[n].remaining = 1 \/ (thrown /\ ops[n].kind = "drop" /\ ~IsGltfFile(f))
    THEN RemoveLoad(ops, n)
    ELSE [ops EXCEPT ![n] = [NewLoad(ops[n].kind, ops[n].remaining - 1, FALSE)
                                EXCEPT !.added = ops[n].added + ClipCount(f)]]

\* variant of Push that puts the new entries in front (Array.prototype.unshift)
Unshift(list, items) == items \o list

\* Array.prototype.push, for the entries one completion pushes one by one
Push(list, items) == list \o items

\* the parse succeeded: the success callback of gltfLoader.parse, or the code
\* after fbxLoader.parse, which runs to its end before any other handler
AnimationFileParsed(n, f) ==
    /\ n \in 1..Len(loads)
    /\ ~loads[n].asSource
    /\ loads[n].kind = "drop" => IsModelFile(f)
    /\ LET pushed == PushedAnimations(f, inPlace, Len(originalAnimations))
       IN  /\ FileParses(f)
           /\ originalAnimations' = Push(originalAnimations, PushedOriginals(f))
           /\ animations' = Push(animations, pushed)
           /\ loads' = AfterFile(loads, n, f, UICount(animations') < Len(animations'))
           /\ last' = [op |-> "add", a |-> f,
                       b |-> IF last.op = "toggle" THEN 1 ELSE 0, out |-> << >>]
    /\ draggedItem' = UpdateUIDragged(draggedItem)
    /\ meshes' = FixNonPBRMaterials(meshes)
    /\ textures' = FixedTextures(meshes, textures)
    /\ UNCHANGED <<hasObject, inPlace, mixer, animation, isPlaying, isLooping,
                   draggedIndex, trackIn, trackOut, textureType, usePackedTexture,
                   packedTexture, pbrTextures, customTexture, imageLoads,
                   shellVars>>

\* the completion, explored with at most MaxClips clips in the list
AnimationFileLoaded(n, f) ==
    Len(originalAnimations) + ClipCount(f) <= MaxClips /\ AnimationFileParsed(n, f)

\* variant of PushedOnFailure for a loader that hands over an empty clip
\* before it reports the failure
PushedBeforeFailure(f) == << [name |-> ClipNameOf(f), tracks |-> << >>, duration |-> 0] >>

\* the clips pushed for a file whose parse fails: fbxLoader.parse throws
\* before the loop over object.animations, gltfLoader.parse calls onError only
PushedOnFailure(f) == << >>

\* the parse failed: the catch of the FBX branch (the promise of a dropped
\* FBX file is then never resolved), or the GLTF error callback
AnimationFileFailed(n, f) ==
    /\ n \in 1..Len(loads)
    /\ ~loads[n].asSource
    /\ loads[n].kind = "drop" => IsModelFile(f)
    /\ ~FileParses(f)
    /\ originalAnimations' = originalAnimations \o PushedOnFailure(f)
    /\ animations' = animations \o NewObjects(PushedOnFailure(f), Len(originalAnimations))
    /\ loads' = AfterFile(loads, n, f, TRUE)
    /\ last' = [op |-> "addfail", a |-> f, b |-> loads[n].added, out |-> << >>]
    /\ UNCHANGED <<hasObject, inPlace, mixer,
                   animation, isPlaying, isLooping, draggedItem, draggedIndex,
                   trackIn, trackOut, texVars, shellVars>>

\* ------------------------------------------------------------------------
\* Handlers of a list item (the closures updateUI creates for item k)
\* ------------------------------------------------------------------------
\* the click handler of the name field
IsStaticPose(clip) == clip.duration < 10

ClickAnimation(k) ==
    /\ k \in 1..UICount(animations)
    /\ IF mixer
       THEN /\ animation' =
                 [clip |-> animations[k],
                  attached |-> TRUE,
                  loop |-> IF IsStaticPose(animations[k]) THEN "LoopOnce"
                           ELSE IF isLooping THEN "LoopRepeat" ELSE "LoopOnce",
                  clamp |-> IsStaticPose(animations[k]),
                  running |-> TRUE,
                  time |-> 0, paused |-> FALSE, enabled |-> TRUE]
            /\ isPlaying' = TRUE
       ELSE /\ animation' = Stopped(animation)
            /\ isPlaying' = isPlaying
    /\ last' = [op |-> "click", a |-> k, b |-> 0, out |-> << >>]
    /\ UNCHANGED <<hasObject, originalAnimations, animations, inPlace, mixer,
                   isLooping, draggedItem, draggedIndex, loads,
                   trackIn, trackOut, texVars, shellVars>>

\* the trimmed text stored as it is, empty or not
NewNameTrimmedOnly(text, k) == Trim(text)

\* input.value.trim() || `Animation_${i}`   (i counts from 0)
NewName(text, k) ==
    IF Trim(text) # << >> THEN Trim(text) ELSE sAnimationUnderscore \o DigitString(k - 1)

\* the save branch of the rename button
RenameAnimation(k, text) ==
    /\ k \in 1..UICount(animations)
    /\ animations' = [animations EXCEPT ![k].name = NewName(text, k)]
    /\ originalAnimations' =
         IF k \in 1..Len(originalAnimations)
         THEN [originalAnimations EXCEPT ![k].name = NewName(text, k)]
         ELSE originalAnimations
    /\ animation' = IF animation.attached /\ animation.clip.src = animations[k].src
                    THEN [animation EXCEPT !.clip.name = NewName(text, k)]
                    ELSE animation
    /\ last' = [op |-> "rename", a |-> k, b |-> 0, out |-> << >>]
    /\ UNCHANGED <<hasObject, inPlace, mixer, isPlaying, isLooping, draggedItem,
                   draggedIndex, loads, trackIn, trackOut, texVars, shellVars>>

\* the delete button
DeleteAnimation(k) ==
    /\ k \in 1..UICount(animations)
    /\ animations' = SpliceOut(animations, IndexOf(animations, animations[k]))
    /\ draggedItem' = UpdateUIDragged(draggedItem)
    /\ animation' = Detach(animation, animations')
    /\ last' = [op |-> "delete", a |-> k, b |-> 0, out |-> << >>]
    /\ UNCHANGED <<hasObject, originalAnimations, inPlace, mixer,
                   isPlaying, isLooping, draggedIndex, loads,
                   trackIn, trackOut, texVars, shellVars>>

\* dragstart on item k
DragStart(k) ==
    /\ k \in 1..UICount(animations)
    /\ draggedItem' = k
    /\ draggedIndex' = k
    /\ last' = [op |-> "dragstart", a |-> k, b |-> 0, out |-> << >>]
    /\ UNCHANGED <<hasObject, originalAnimations, animations, inPlace, mixer,
                   animation, isPlaying, isLooping, loads,
                   trackIn, trackOut, texVars, shellVars>>

\* variant of MoveAnimation that inserts at the target index of the list as it
\* was before the dragged clip was taken out
MoveAnimationShifted(list, from, target) ==
    LET draggedAnimation == IF from \in 1..Len(list) THEN list[from] ELSE Undefined
        removed == IF from \in 1..Len(list) THEN SpliceOut(list, from) ELSE list
    IN  SpliceIn(removed, IF from < target THEN target - 1 ELSE target, draggedAnimation)

\* the two splices of the drop handler: from = this.draggedIndex (0 for null,
\* which splice takes as index 0), target = the item dropped on
MoveAnimation(list, from, target) ==
    LET draggedAnimation == IF from \in 1..Len(list) THEN list[from] ELSE Undefined
        removed == IF from = 0 THEN SpliceOut(list, 1)
                   ELSE IF from \in 1..Len(list) THEN SpliceOut(list, from)
                   ELSE list
    IN  SpliceIn(removed, target, draggedAnimation)

\* drop on item t
ItemDrop(t) ==
    /\ t \in 1..UICount(animations)
    /\ IF draggedItem # t
       THEN /\ animations' = MoveAnimation(animations, draggedIndex, t)
            /\ draggedItem' = UpdateUIDragged(draggedItem)
       ELSE UNCHANGED <<animations, draggedItem>>
    /\ animation' = Detach(animation, animations')
    /\ last' = [op |-> IF draggedItem \in 1..Len(animations) /\ draggedItem # t
                       THEN "reorder" ELSE "itemdrop",
                a |-> draggedIndex, b |-> t, out |-> << >>]
    /\ UNCHANGED <<hasObject, originalAnimations, inPlace, mixer,
                   isPlaying, isLooping, draggedIndex, loads,
                   trackIn, trackOut, texVars, shellVars>>


\* ------------------------------------------------------------------------
\* The In Place checkbox
\* ------------------------------------------------------------------------
\* the list onInPlaceToggle installs as this.object.animations
RecomputedAnimations(originals, checked) ==
    NewObjects(IF checked THEN MakeAnimationsInPlace(originals) ELSE originals, 0)

\* this.object.animations.find(clip => clip.name === currentClipName)
FindByName(list, name) ==
    IF \E k \in 1..Len(list) : list[k].name = name
    THEN list[CHOOSE k \in 1..Len(list) :
                 list[k].name = name /\ \A m \in 1..(k - 1) : list[m].name # name]
    ELSE Undefined

\* the restart of the active action on the recomputed list
RestartedAnimation(list, action, looping, wasPlaying) ==
    LET newClip == FindByName(list, action.clip.name)
    IN  IF newClip # Undefined
        THEN [clip |-> newClip,
              attached |-> TRUE,
              loop |-> IF looping THEN "LoopRepeat" ELSE "LoopOnce",
              clamp |-> FALSE,
              running |-> wasPlaying,
              time |-> 0, paused |-> FALSE, enabled |-> TRUE]
        ELSE DetachAll(Stopped(action))

OnInPlaceToggle ==
    /\ inPlace' = ~inPlace
    /\ IF ~hasObject \/ Len(animations) = 0
       THEN UNCHANGED <<originalAnimations, animations, animation, draggedItem>>
       ELSE /\ originalAnimations' = IF inPlace' THEN ArgumentAfterInPlace(originalAnimations)
                                    ELSE originalAnimations
            /\ animations' = RecomputedAnimations(originalAnimations, inPlace')
            /\ animation' = IF animation # NoAnimation /\ mixer
                            THEN RestartedAnimation(animations', animation,
                                                    isLooping, isPlaying)
                            ELSE DetachAll(animation)
            /\ draggedItem' = UpdateUIDragged(draggedItem)
    /\ last' = [op |-> "toggle", a |-> IF ~hasObject \/ Len(animations) = 0 THEN 0 ELSE 1,
                b |-> 0, out |-> << >>]
    /\ UNCHANGED <<hasObject, mixer, isPlaying, isLooping,
                   draggedIndex, loads, trackIn, trackOut, texVars, shellVars>>

\* ------------------------------------------------------------------------
\* Export
\* ------------------------------------------------------------------------
\* variant of AnimationsToExport that hands over the stored originals
OriginalsToExport == IF hasObject THEN NewObjects(originalAnimations, 0) ELSE << >>

\* target.animations || [] with target = this.object || this.scene
AnimationsToExport == IF hasObject THEN animations ELSE << >>

\* filename.replace(/\.(glb|gltf)$/i, '')
WithoutGltfExtension(s) ==
    IF EndsWith(ToLowerCase(s), sDotGlb) THEN SubSeq(s, 1, Len(s) - 4)
    ELSE IF EndsWith(ToLowerCase(s), sDotGltf) THEN SubSeq(s, 1, Len(s) - 5)
    ELSE s

\* the file name exportGLB hands to the save dialog or the download link
ExportFilename(value) ==
    LET filename == IF Trim(value) # << >> THEN Trim(value) ELSE <<"m","o","d","e","l">>
    IN  WithoutGltfExtension(filename) \o sDotGlb

\* The whole of an export whose encoder and save succeed, from the click to
\* the control enabled again by the timer: the control is as it was.
ExportGLB ==
    /\ last' = [op |-> "export", a |-> 0, b |-> ExportFilename(filenameInput),
                out |-> AnimationsToExport]
    /\ UNCHANGED <<hasObject, originalAnimations, animations, inPlace, mixer,
                   animation, isPlaying, isLooping, draggedItem, draggedIndex,
                   loads, trackIn, trackOut, texVars, shellVars>>

\* ------------------------------------------------------------------------
\* The application
\* ------------------------------------------------------------------------
Next ==
    \/ OnSourceChange
    \/ \E count \in 1..MaxSel : OnAnimationChange(count)
    \/ \E count \in 1..MaxSel : OnAnimationDrop(count)
    \/ \E n \in 1..MaxOps, f \in FileIds : SourceLoaded(n, f)
    \/ \E n \in 1..MaxOps, f \in FileIds : SourceFailed(n, f)
    \/ \E n \in 1..MaxOps, f \in FileIds : AnimationFileLoaded(n, f)
    \/ \E n \in 1..MaxOps, f \in FileIds : AnimationFileFailed(n, f)
    \/ \E k \in 1..MaxClips, text \in RenameInputs : RenameAnimation(k, text)
    \/ \E k \in 1..MaxClips : DeleteAnimation(k)
    \/ \E k \in 1..MaxClips : DragStart(k)
    \/ \E t \in 1..MaxClips : draggedItem >= 1 /\ ItemDrop(t)
    \/ OnInPlaceToggle
    \/ ExportGLB

Spec == Init /\ [][Next]_vars

\* ------------------------------------------------------------------------
\* Playback controls and the render tick
\* ------------------------------------------------------------------------
\* togglePlayPause
TogglePlayPause ==
    /\ IF animation = NoAnimation
       THEN UNCHANGED <<isPlaying, animation>>
       ELSE /\ isPlaying' = ~isPlaying
            /\ animation' = [animation EXCEPT !.paused = isPlaying]
    /\ last' = [op |-> "playpause", a |-> 0, b |-> 0, out |-> << >>]
    /\ UNCHANGED <<hasObject, originalAnimations, animations, inPlace, mixer,
                   isLooping, draggedItem, draggedIndex, loads,
                   trackIn, trackOut, texVars, shellVars>>

\* toggleLoop
ToggleLoop ==
    /\ isLooping' = ~isLooping
    /\ animation' =
         IF animation = NoAnimation THEN animation
         ELSE LET looped == [animation EXCEPT
                                !.loop = IF isLooping' THEN "LoopRepeat" ELSE "LoopOnce"]
              IN  IF ~isLooping' /\ looped.time >= looped.clip.duration
                  THEN Reset(looped)
                  ELSE looped
    /\ last' = [op |-> "loop", a |-> 0, b |-> 0, out |-> << >>]
    /\ UNCHANGED <<hasObject, originalAnimations, animations, inPlace, mixer,
                   isPlaying, draggedItem, draggedIndex, loads,
                   trackIn, trackOut, texVars, shellVars>>

\* the time between two frames, in milliseconds
FrameTimes == {400}

\* variant of RenderIsStaticPose that takes a duration of 0.01 as static
RenderIsStaticPoseInclusive(action) == action # NoAnimation /\ action.clip.duration <= 10

\* render: this.animation && this.animation.getClip().duration < 0.01
RenderIsStaticPose(action) == action # NoAnimation /\ action.clip.duration < 10

\* updateAnimationProgress: duration < 0.01
ProgressIsStaticPose(duration) == duration < 10

\* mixer.update(deltaTime) on the active action: AnimationAction._updateTime
MixerUpdate(action, deltaTime) ==
    IF ~action.running \/ ~action.enabled \/ action.paused THEN action
    ELSE LET time == action.time + deltaTime
             duration == action.clip.duration
         IN  IF action.loop = "LoopOnce"
             THEN IF time >= duration
                  THEN IF action.clamp
                       THEN [action EXCEPT !.time = duration, !.paused = TRUE]
                       ELSE [action EXCEPT !.time = duration, !.enabled = FALSE]
                  ELSE [action EXCEPT !.time = time]
             ELSE IF time >= duration /\ duration > 0
                  THEN [action EXCEPT !.time = time % duration]
                  ELSE [action EXCEPT !.time = time]

\* the percentage updateAnimationProgress shows for the action
ShownProgress(action) ==
    IF action = NoAnimation THEN 0
    ELSE IF ProgressIsStaticPose(action.clip.duration) THEN 100
    ELSE (100 * action.time) \div action.clip.duration

\* render: one frame, with updateAnimationProgress
Render(deltaTime) ==
    LET advanced == mixer /\ isPlaying /\ ~RenderIsStaticPose(animation)
        updated == IF advanced THEN MixerUpdate(animation, deltaTime) ELSE animation
        finished == /\ updated # NoAnimation
                    /\ ~ProgressIsStaticPose(updated.clip.duration)
                    /\ ~isLooping
                    /\ updated.time >= updated.clip.duration - 100
                    /\ isPlaying
    IN  /\ animation' = IF finished THEN [updated EXCEPT !.time = 0] ELSE updated
        /\ isPlaying' = IF finished THEN FALSE ELSE isPlaying
        /\ last' = [op |-> "render", a |-> IF advanced THEN 1 ELSE 0,
                    b |-> ShownProgress(updated), out |-> << >>]
        /\ UNCHANGED <<hasObject, originalAnimations, animations, inPlace, mixer,
                       isLooping, draggedItem, draggedIndex, loads,
                       trackIn, trackOut, texVars, shellVars>>

\* the player: one model file at a time, the list items, the In Place
\* checkbox, the playback controls and the render tick
NextPlayer ==
    \/ OnSourceChange
    \/ \E n \in 1..MaxOps, f \in PlayerFileIds : SourceLoaded(n, f)
    \/ \E k \in 1..Len(animations) : ClickAnimation(k)
    \/ \E k \in 1..Len(animations) : DeleteAnimation(k)
    \/ OnInPlaceToggle
    \/ TogglePlayPause
    \/ ToggleLoop
    \/ \E deltaTime \in FrameTimes : Render(deltaTime)

SpecPlayer == Init /\ [][NextPlayer]_vars

\* ------------------------------------------------------------------------
\* The texture panel
\* ------------------------------------------------------------------------
\* onTextureTypeChange : a click on a texture type button
OnTextureTypeChange(type) ==
    /\ textureType' = type
    /\ last' = [op |-> "texturetype", a |-> 0, b |-> 0, out |-> << >>]
    /\ UNCHANGED <<hasObject, originalAnimations, animations, inPlace, mixer,
                   animation, isPlaying, isLooping, draggedItem, draggedIndex,
                   loads, trackIn, trackOut, usePackedTexture, packedTexture,
                   pbrTextures, customTexture, meshes, textures, imageLoads,
                   shellVars>>

\* onPackedModeToggle : the checkbox changed, the flag takes its state
OnPackedModeToggle ==
    /\ usePackedTexture' = ~usePackedTexture
    /\ last' = [op |-> "packedmode", a |-> 0, b |-> 0, out |-> << >>]
    /\ UNCHANGED <<hasObject, originalAnimations, animations, inPlace, mixer,
                   animation, isPlaying, isLooping, draggedItem, draggedIndex,
                   loads, trackIn, trackOut, textureType, packedTexture,
                   pbrTextures, customTexture, meshes, textures, imageLoads,
                   shellVars>>

\* a texture handler up to the decoding of the image: kind is the handler,
\* mapType the argument of onPBRTextureChange; nothing in the handler looks
\* at the files whose decoding is pending.  The pending files are kept in the
\* order of their selection; overtaken is history: a file selected later
\* through the same input has already been decoded
ImageChosen(kind, mapType) ==
    /\ imageLoads' = Append(imageLoads, [kind |-> kind, mapType |-> mapType,
                                         overtaken |-> FALSE])
    /\ last' = [op |-> "image", a |-> 0, b |-> 0, out |-> << >>]
    /\ UNCHANGED <<hasObject, originalAnimations, animations, inPlace, mixer,
                   animation, isPlaying, isLooping, draggedItem, draggedIndex,
                   loads, trackIn, trackOut, textureType, usePackedTexture,
                   packedTexture, pbrTextures, customTexture, meshes, textures,
                   shellVars>>

\* the handlers, explored with at most MaxImageLoads files pending
StartImageLoad(kind, mapType) ==
    Len(imageLoads) < MaxImageLoads /\ ImageChosen(kind, mapType)

\* the pending files after img.onload of file n ran
AfterImage(ops, n) ==
    RemoveLoad([k \in 1..Len(ops) |->
                   IF k < n /\ ops[k].kind = ops[n].kind /\ ops[k].mapType = ops[n].mapType
                   THEN [ops[k] EXCEPT !.overtaken = TRUE]
                   ELSE ops[k]], n)

\* onTextureChange, up to img.onload
OnTextureChange == StartImageLoad("texture", "map")

\* onPackedTextureChange, up to img.onload
OnPackedTextureChange == StartImageLoad("packed", "aoMap")

\* onPBRTextureChange(e, mapType), up to img.onload
OnPBRTextureChange(mapType) == StartImageLoad("pbr", mapType)

\* img.onerror of the three handlers
ImageFailed(n) ==
    /\ n \in 1..Len(imageLoads)
    /\ imageLoads' = RemoveLoad(imageLoads, n)
    /\ last' = [op |-> "imagefail", a |-> 0, b |-> 0, out |-> << >>]
    /\ UNCHANGED <<hasObject, originalAnimations, animations, inPlace, mixer,
                   animation, isPlaying, isLooping, draggedItem, draggedIndex,
                   loads, trackIn, trackOut, textureType, usePackedTexture,
                   packedTexture, pbrTextures, customTexture, meshes, textures,
                   shellVars>>

\* img.onload of onTextureChange
TextureLoaded(n) ==
    /\ n \in 1..Len(imageLoads)
    /\ imageLoads[n].kind = "texture"
    /\ Len(textures) < MaxTextures
    /\ LET texture == Len(textures) + 1
       IN  /\ textures' = Append(IF hasObject
                                  THEN Dispose(textures, SlotTextures(meshes, {"map"}))
                                  ELSE textures,
                                  NewTexture(SRGBColorSpace, "custom"))
           /\ customTexture' = texture
           /\ meshes' = IF hasObject THEN ApplyTextureToModel(meshes, texture) ELSE meshes
           /\ last' = [op |-> "texture", a |-> texture,
                       b |-> IF imageLoads[n].overtaken THEN 1 ELSE 0, out |-> << >>]
    /\ imageLoads' = AfterImage(imageLoads, n)
    /\ UNCHANGED <<hasObject, originalAnimations, animations, inPlace, mixer,
                   animation, isPlaying, isLooping, draggedItem, draggedIndex,
                   loads, trackIn, trackOut, textureType, usePackedTexture,
                   packedTexture, pbrTextures,
                   shellVars>>

\* variant of PackedTextureSet that leaves the metalness slot alone
PackedTextureSetTwoSlots(set, texture) ==
    [set EXCEPT !["aoMap"] = texture, !["roughnessMap"] = texture]

\* this.pbrTextures after onPackedTextureChange wrote the packed texture
PackedTextureSet(set, texture) ==
    [set EXCEPT !["aoMap"] = texture, !["roughnessMap"] = texture,
                !["metalnessMap"] = texture]

\* img.onload of onPackedTextureChange
PackedTextureLoaded(n) ==
    /\ n \in 1..Len(imageLoads)
    /\ imageLoads[n].kind = "packed"
    /\ Len(textures) < MaxTextures
    /\ LET texture == Len(textures) + 1
           set == PackedTextureSet(pbrTextures, texture)
       IN  /\ textures' = Append(IF hasObject
                                  THEN Dispose(textures,
                                               ReleasedByPBR(meshes, set, usePackedTexture,
                                                             texture))
                                  ELSE textures,
                                  NewTexture(LinearSRGBColorSpace, "packed"))
           /\ packedTexture' = texture
           /\ pbrTextures' = set
           /\ meshes' = IF hasObject
                        THEN ApplyPBRTexturesToModel(meshes, set, usePackedTexture, texture)
                        ELSE meshes
           /\ last' = [op |-> "packed", a |-> texture,
                       b |-> IF imageLoads[n].overtaken THEN 1 ELSE 0, out |-> << >>]
    /\ imageLoads' = AfterImage(imageLoads, n)
    /\ UNCHANGED <<hasObject, originalAnimations, animations, inPlace, mixer,
                   animation, isPlaying, isLooping, draggedItem, draggedIndex,
                   loads, trackIn, trackOut, textureType, usePackedTexture,
                   customTexture,
                   shellVars>>

\* the tag onPBRTextureChange writes on the texture of a map type
PBRColorSpace(mapType) ==
    IF mapType = "map" \/ mapType = "emissiveMap"
    THEN SRGBColorSpace
    ELSE LinearSRGBColorSpace

\* this.pbrTextures[mapType] = texture : a key the object does not have yet
\* is added to it
WithTexture(set, mapType, texture) ==
    [m \in DOMAIN set \cup {mapType} |-> IF m = mapType THEN texture ELSE set[m]]

\* img.onload of onPBRTextureChange
PBRTextureLoaded(n) ==
    /\ n \in 1..Len(imageLoads)
    /\ imageLoads[n].kind = "pbr"
    /\ Len(textures) < MaxTextures
    /\ LET texture == Len(textures) + 1
           mapType == imageLoads[n].mapType
           set == WithTexture(pbrTextures, mapType, texture)
       IN  /\ textures' = Append(IF hasObject
                                  THEN Dispose(textures,
                                               ReleasedByPBR(meshes, set, usePackedTexture,
                                                             packedTexture))
                                  ELSE textures,
                                  NewTexture(PBRColorSpace(mapType), "separate"))
           /\ pbrTextures' = set
           /\ meshes' = IF hasObject
                        THEN ApplyPBRTexturesToModel(meshes, set, usePackedTexture,
                                                     packedTexture)
                        ELSE meshes
           /\ last' = [op |-> "pbr", a |-> texture,
                       b |-> IF imageLoads[n].overtaken THEN 1 ELSE 0, out |-> << >>]
    /\ imageLoads' = AfterImage(imageLoads, n)
    /\ UNCHANGED <<hasObject, originalAnimations, animations, inPlace, mixer,
                   animation, isPlaying, isLooping, draggedItem, draggedIndex,
                   loads, trackIn, trackOut, textureType, usePackedTexture,
                   packedTexture, customTexture,
                   shellVars>>

\* the application restricted to the model, added animation files and the
\* texture panel
NextTextures ==
    \/ OnSourceChange
    \/ \E count \in 1..MaxSel : OnAnimationChange(count)
    \/ \E n \in 1..MaxOps, f \in TextureFileIds : SourceLoaded(n, f)
    \/ \E n \in 1..MaxOps : AnimationFileLoaded(n, 1)
    \/ \E type \in {"shaded", "pbr"} : OnTextureTypeChange(type)
    \/ OnPackedModeToggle
    \/ OnTextureChange
    \/ OnPackedTextureChange
    \/ \E mapType \in MapTypes : OnPBRTextureChange(mapType)
    \/ \E n \in 1..MaxImageLoads : ImageFailed(n)
    \/ \E n \in 1..MaxImageLoads : TextureLoaded(n)
    \/ \E n \in 1..MaxImageLoads : PackedTextureLoaded(n)
    \/ \E n \in 1..MaxImageLoads : PBRTextureLoaded(n)

SpecTextures == Init /\ [][NextTextures]_vars

\* the application restricted to the model (Walk.v2.fbx, Crowd.fbx or
\* Prop.fbx) and the inputs of the texture panel that convert or re-map its
\* materials
NextMaterials ==
    \/ OnSourceChange
    \/ \E n \in 1..MaxOps, f \in {1, 7, 8} : SourceLoaded(n, f)
    \/ \E type \in {"shaded", "pbr"} : OnTextureTypeChange(type)
    \/ OnTextureChange
    \/ \E mapType \in {"map", "normalMap"} : OnPBRTextureChange(mapType)
    \/ \E n \in 1..MaxImageLoads : ImageFailed(n)
    \/ \E n \in 1..MaxImageLoads : TextureLoaded(n)
    \/ \E n \in 1..MaxImageLoads : PBRTextureLoaded(n)

SpecMaterials == Init /\ [][NextMaterials]_vars

\* ------------------------------------------------------------------------
\* The file name field and the export
\* ------------------------------------------------------------------------
\* the texts a user types into the file name field
FilenameInputs ==
    { << >>, <<" ">>, <<"h","e","r","o",".","f","b","x">>, <<"a",".","G","L","T","F">> }

\* the user edits the file name field
TypeFilename(text) ==
    /\ filenameInput' = text
    /\ UNCHANGED <<exportCtl, labelLoading, dialogOpen, inputFiles, windowStore>>
    /\ last' = [op |-> "filename", a |-> 0, b |-> 0, out |-> << >>]
    /\ UNCHANGED <<hasObject, originalAnimations, animations, inPlace, mixer,
                   animation, isPlaying, isLooping, draggedItem, draggedIndex,
                   loads, trackIn, trackOut, texVars>>

\* The steps of exportGLB one by one.  The click: the control is disabled and
\* the encoder is invoked with the clips of the target.
ExportClicked ==
    /\ ~exportCtl.disabled
    /\ exportCtl.parses < MaxExports
    /\ exportCtl' = [exportCtl EXCEPT !.disabled = TRUE, !.loading = TRUE,
                                      !.pending = "parse", !.parses = @ + 1]
    /\ last' = [op |-> "export", a |-> 0, b |-> ExportFilename(filenameInput),
                out |-> AnimationsToExport]
    /\ UNCHANGED <<hasObject, originalAnimations, animations, inPlace, mixer,
                   animation, isPlaying, isLooping, draggedItem, draggedIndex,
                   loads, trackIn, trackOut, texVars, filenameInput,
                   labelLoading, dialogOpen, inputFiles, windowStore>>

\* an error callback that starts the encoder again and leaves the control as it is
EncoderFailedAndRetried ==
    /\ exportCtl.pending = "parse"
    /\ exportCtl' = [exportCtl EXCEPT !.parses = @ + 1]
    /\ last' = [op |-> "encoderFailed", a |-> 0, b |-> 0, out |-> << >>]
    /\ UNCHANGED <<hasObject, originalAnimations, animations, inPlace, mixer,
                   animation, isPlaying, isLooping, draggedItem, draggedIndex,
                   loads, trackIn, trackOut, texVars, filenameInput,
                   labelLoading, dialogOpen, inputFiles, windowStore>>

\* the error callback of gltfExporter.parse
EncoderFailed ==
    /\ exportCtl.pending = "parse"
    /\ exportCtl' = [exportCtl EXCEPT !.disabled = FALSE, !.loading = FALSE,
                                      !.pending = "none"]
    /\ last' = [op |-> "encoderFailed", a |-> 0, b |-> 0, out |-> << >>]
    /\ UNCHANGED <<hasObject, originalAnimations, animations, inPlace, mixer,
                   animation, isPlaying, isLooping, draggedItem, draggedIndex,
                   loads, trackIn, trackOut, texVars, filenameInput,
                   labelLoading, dialogOpen, inputFiles, windowStore>>

\* The success callback of gltfExporter.parse.  In Electron the result goes
\* to adaptFileWriting, which answers true, answers false or throws; in the
\* browser it goes to the download link.
EncoderSucceeded(electron, outcome) ==
    /\ exportCtl.pending = "parse"
    /\ ~electron => outcome = "saved"
    /\ exportCtl' =
           IF outcome = "saved"
           THEN [exportCtl EXCEPT !.loading = FALSE, !.success = TRUE,
                                  !.pending = "timer", !.saves = @ + 1]
           ELSE [exportCtl EXCEPT !.loading = FALSE, !.disabled = FALSE,
                                  !.pending = "none", !.saves = @ + 1]
    /\ last' = [op |-> "encoded", a |-> 0, b |-> 0, out |-> << >>]
    /\ UNCHANGED <<hasObject, originalAnimations, animations, inPlace, mixer,
                   animation, isPlaying, isLooping, draggedItem, draggedIndex,
                   loads, trackIn, trackOut, texVars, filenameInput,
                   labelLoading, dialogOpen, inputFiles, windowStore>>

\* the timer started by a successful save, two seconds later
ExportSuccessTimer ==
    /\ exportCtl.pending = "timer"
    /\ exportCtl' = [exportCtl EXCEPT !.success = FALSE, !.disabled = FALSE,
                                      !.pending = "none"]
    /\ last' = [op |-> "exportTimer", a |-> 0, b |-> 0, out |-> << >>]
    /\ UNCHANGED <<hasObject, originalAnimations, animations, inPlace, mixer,
                   animation, isPlaying, isLooping, draggedItem, draggedIndex,
                   loads, trackIn, trackOut, texVars, filenameInput,
                   labelLoading, dialogOpen, inputFiles, windowStore>>

\* the state after the constructor, the file name field empty
InitExport ==
    /\ AppInit
    /\ filenameInput = << >>
    /\ trackIn = << >>
    /\ trackOut = << >>

NextExport ==
    \/ OnSourceChange
    \/ \E n \in 1..MaxOps, f \in FileIds : SourceLoaded(n, f)
    \/ \E n \in 1..MaxOps, f \in FileIds : SourceFailed(n, f)
    \/ \E text \in FilenameInputs : TypeFilename(text)
    \/ ExportClicked
    \/ EncoderFailed
    \/ \E electron \in BOOLEAN, outcome \in {"saved", "cancelled", "threw"} :
          EncoderSucceeded(electron, outcome)
    \/ ExportSuccessTimer
    \/ \E k \in 1..MaxClips, text \in {<< >>, <<" ">>} : RenameAnimation(k, text)
    \/ \E k \in 1..MaxClips : DeleteAnimation(k)
    \/ OnInPlaceToggle

SpecExport == InitExport /\ [][NextExport]_vars

\* the model and onPBRTextureChange called with the names of the six
\* listeners and with one that is no slot of the panel
NextSlots ==
    \/ OnSourceChange
    \/ \E n \in 1..MaxOps, f \in {1, 7, 8} : SourceLoaded(n, f)
    \/ \E mapType \in MapTypes \cup {"specularMap"} : OnPBRTextureChange(mapType)
    \/ \E n \in 1..MaxImageLoads : ImageFailed(n)
    \/ \E n \in 1..MaxImageLoads : PBRTextureLoaded(n)

SpecSlots == Init /\ [][NextSlots]_vars

\* ------------------------------------------------------------------------
\* The Electron adapter (electron-adapter.js)
\* ------------------------------------------------------------------------
\* adaptFileWriting(blob, filename, options), by what its environment answers:
\*   electron : isElectron()
\*   dialog   : saveFileDialog resolves to null ("null"), to a cancelled
\*              result ("canceled"), to a result without a path ("noPath"),
\*              to a path ("path"), or rejects ("rejected")
\*   blob     : blob.arrayBuffer() resolves ("ok") or throws ("throws")
\*   write    : writeFile resolves to success ("success"), to a failure
\*              ("failure"), to null ("null"), or rejects ("rejected")
\*   download : the download link works ("ok") or the DOM throws ("throws")
\* out.result is what the promise does: "true", "false" or "throws";
\* out.writeFile counts the calls of writeFile and out.downloads the clicks
\* on a download link.
AdaptFileWriting(electron, dialog, blob, write, download) ==
    LET Download(onThrow, writes) ==
            IF download = "ok"
            THEN [result |-> "true", writeFile |-> writes, downloads |-> 1]
            ELSE [result |-> onThrow, writeFile |-> writes, downloads |-> 0]
        out ==
            IF ~electron THEN Download("throws", 0)
            ELSE IF dialog = "rejected" THEN Download("false", 0)
            ELSE IF dialog # "path"
                 THEN [result |-> "false", writeFile |-> 0, downloads |-> 0]
            ELSE IF blob = "throws" THEN Download("false", 0)
            ELSE IF write = "rejected" THEN Download("false", 1)
            ELSE [result |-> IF write = "success" THEN "true" ELSE "false",
                  writeFile |-> 1, downloads |-> 0]
    IN  /\ last' = [op |-> "adaptFileWriting",
                    a |-> [electron |-> electron, dialog |-> dialog, blob |-> blob,
                           write |-> write, download |-> download],
                    b |-> 0, out |-> out]
    /\ UNCHANGED <<hasObject, originalAnimations, animations, inPlace, mixer,
                   animation, isPlaying, isLooping, draggedItem, draggedIndex,
                   loads, trackIn, trackOut, texVars, shellVars>>

\* adaptFileReading(file), by the file object and what its environment answers:
\*   file.path : the object has a path;  file.data : the object it carries as
\*               data (0 for none, else 1)
\*   read      : the data object readFile resolves with (2), 0 for a result
\*               without success or data, -1 for a rejection
\* out.result is the object the promise resolves to, or -1 when the file
\* goes to a FileReader; out.readFile counts the calls of readFile.
AdaptFileReading(electron, file, read) ==
    LET out ==
            IF ~electron THEN [result |-> -1, readFile |-> 0]
            ELSE IF file.path
                 THEN IF read \in {0, -1}
                      THEN [result |-> -1, readFile |-> 1]
                      ELSE [result |-> read, readFile |-> 1]
            ELSE IF file.data # 0 THEN [result |-> file.data, readFile |-> 0]
            ELSE [result |-> -1, readFile |-> 0]
    IN  /\ last' = [op |-> "adaptFileReading",
                    a |-> [electron |-> electron, file |-> file, read |-> read],
                    b |-> 0, out |-> out]
    /\ UNCHANGED <<hasObject, originalAnimations, animations, inPlace, mixer,
                   animation, isPlaying, isLooping, draggedItem, draggedIndex,
                   loads, trackIn, trackOut, texVars, shellVars>>

\* The click handler setupFileInputAdapter puts on this.$source in Electron,
\* up to the await of the dialog: the label is shown as loading.
FileInputClicked ==
    /\ ~dialogOpen
    /\ dialogOpen' = TRUE
    /\ labelLoading' = TRUE
    /\ last' = [op |-> "inputClick", a |-> 0, b |-> 0, out |-> << >>]
    /\ UNCHANGED <<hasObject, originalAnimations, animations, inPlace, mixer,
                   animation, isPlaying, isLooping, draggedItem, draggedIndex,
                   loads, trackIn, trackOut, texVars, filenameInput, exportCtl,
                   inputFiles, windowStore>>

\* a handler that sets the files and dispatches the change event whatever
\* the dialog answered
OpenDialogClosedAlwaysDispatches(result, paths, unreadable) ==
    /\ dialogOpen
    /\ dialogOpen' = FALSE
    /\ Len(loads) < MaxOps
    /\ inputFiles' = paths
    /\ loads' = Append(loads, NewLoad("source", 1, TRUE))
    /\ labelLoading' = TRUE
    /\ last' = [op |-> "dialog", a |-> result, b |-> Len(paths), out |-> << >>]
    /\ UNCHANGED <<hasObject, originalAnimations, animations, inPlace, mixer,
                   animation, isPlaying, isLooping, draggedItem, draggedIndex,
                   trackIn, trackOut, texVars, filenameInput, exportCtl,
                       windowStore>>

\* The rest of the click handler, after the dialog:
\*   result     : openFileDialog resolves to null ("null"), to a cancelled
\*                result ("canceled"), to a result without filePaths
\*                ("noFilePaths"), to filePaths ("paths"), or rejects
\*                ("rejected")
\*   paths      : the filePaths of the result
\*   unreadable : the paths readFile fails on or rejects
\* With files to hand over, the files of the input are replaced and the
\* change event runs onSourceChange up to its first await.
OpenDialogClosed(result, paths, unreadable) ==
    LET files == IF result = "paths"
                 THEN SelectSeq(paths, LAMBDA path : path \notin unreadable)
                 ELSE << >>
    IN  /\ dialogOpen
        /\ dialogOpen' = FALSE
        /\ IF files = << >>
           THEN /\ labelLoading' = FALSE
                /\ UNCHANGED <<inputFiles, loads>>
           ELSE /\ Len(loads) < MaxOps
                /\ inputFiles' = files
                /\ loads' = Append(loads, NewLoad("source", 1, TRUE))
                /\ labelLoading' = TRUE
        /\ last' = [op |-> "dialog", a |-> result, b |-> Len(files), out |-> << >>]
        /\ UNCHANGED <<hasObject, originalAnimations, animations, inPlace, mixer,
                       animation, isPlaying, isLooping, draggedItem, draggedIndex,
                       trackIn, trackOut, texVars, filenameInput, exportCtl,
                       windowStore>>

\* ------------------------------------------------------------------------
\* The window state (window-state.js)
\* ------------------------------------------------------------------------
DEFAULT_WIDTH == 1280
DEFAULT_HEIGHT == 800

\* Coordinates are integers; a value that may be undefined is a sequence of
\* length 0 or 1.  displays is the set of display.bounds of
\* screen.getAllDisplays(), and available tells that the screen API is there.
\* a test of the top left corner in place of the centre
IsOnScreenByCorner(bounds, available, displays) ==
    \/ ~available
    \/ \E display \in displays :
          /\ bounds.x[1] >= display.x
          /\ bounds.x[1] < display.x + display.width
          /\ bounds.y[1] >= display.y
          /\ bounds.y[1] < display.y + display.height

\* the centre is compared doubled, bounds.x + bounds.width / 2 being a half
IsOnScreen(bounds, available, displays) ==
    \/ ~available
    \/ \E display \in displays :
          /\ 2 * bounds.x[1] + bounds.width >= 2 * display.x
          /\ 2 * bounds.x[1] + bounds.width < 2 * (display.x + display.width)
          /\ 2 * bounds.y[1] + bounds.height >= 2 * display.y
          /\ 2 * bounds.y[1] + bounds.height < 2 * (display.y + display.height)

\* saveWindowState(bounds, isMaximized, store)
SaveWindowState(bounds, isMaximized) ==
    /\ windowStore' = << [x |-> <<bounds.x>>, y |-> <<bounds.y>>,
                          width |-> bounds.width, height |-> bounds.height,
                          isMaximized |-> isMaximized] >>
    /\ last' = [op |-> "saveWindowState", a |-> 0, b |-> 0, out |-> << >>]
    /\ UNCHANGED <<hasObject, originalAnimations, animations, inPlace, mixer,
                   animation, isPlaying, isLooping, draggedItem, draggedIndex,
                   loads, trackIn, trackOut, texVars, filenameInput, exportCtl,
                   labelLoading, dialogOpen, inputFiles>>

\* restoreWindowState(store, screenAPI); last.out is the object it returns
RestoreWindowState(available, displays) ==
    /\ last' =
         [op |-> "restoreWindowState", a |-> [available |-> available, displays |-> displays],
          b |-> 0,
          out |->
            IF windowStore = << >>
            THEN [x |-> << >>, y |-> << >>, width |-> DEFAULT_WIDTH,
                  height |-> DEFAULT_HEIGHT, isMaximized |-> FALSE]
            ELSE LET savedState == windowStore[1]
                     bounds == [x |-> savedState.x, y |-> savedState.y,
                                width |-> IF savedState.width # 0 THEN savedState.width
                                          ELSE DEFAULT_WIDTH,
                                height |-> IF savedState.height # 0 THEN savedState.height
                                           ELSE DEFAULT_HEIGHT]
                 IN  IF /\ savedState.x # << >>
                        /\ savedState.y # << >>
                        /\ ~IsOnScreen(bounds, available, displays)
                     THEN [x |-> << >>, y |-> << >>, width |-> bounds.width,
                           height |-> bounds.height, isMaximized |-> savedState.isMaximized]
                     ELSE [x |-> savedState.x, y |-> savedState.y, width |-> bounds.width,
                           height |-> bounds.height, isMaximized |-> savedState.isMaximized]]
    /\ UNCHANGED windowStore
    /\ UNCHANGED <<hasObject, originalAnimations, animations, inPlace, mixer,
                   animation, isPlaying, isLooping, draggedItem, draggedIndex,
                   loads, trackIn, trackOut, texVars, filenameInput, exportCtl,
                   labelLoading, dialogOpen, inputFiles>>

\* The window is moved, resized, maximized and restored, and the application
\* is started again, on one display or on two.
NextWindow ==
    \/ \E x \in {-4, 0, 3}, y \in {0, 3}, width \in {2, 3}, height \in {2, 3},
          isMaximized \in BOOLEAN :
          SaveWindowState([x |-> x, y |-> y, width |-> width, height |-> height],
                          isMaximized)
    \/ \E available \in BOOLEAN,
          displays \in { {[x |-> 0, y |-> 0, width |-> 4, height |-> 4]},
                         {[x |-> 0, y |-> 0, width |-> 4, height |-> 4],
                          [x |-> -4, y |-> 0, width |-> 4, height |-> 4]} } :
          RestoreWindowState(available, displays)

SpecWindow == Init /\ [][NextWindow]_vars

\* The main-process handlers of 'read-file' and 'write-file'.  fs answers
\* with the bytes of the file (code "") or throws an error with a code and a
\* message.  A message is kept as the pieces of its template literal; null is
\* << >> for error and 0 for data; the bytes of a file are numbered by path.
\* a handler that knows EACCES only
HandleReadFileOnlyEACCES(filePath, code, message) ==
    /\ last' = [op |-> "handleReadFile",
                a |-> [filePath |-> filePath, code |-> code, message |-> message],
                b |-> 0,
                out |-> IF code = ""
                        THEN [success |-> TRUE, data |-> 10 + filePath, error |-> << >>]
                        ELSE [success |-> FALSE, data |-> 0,
                              error |-> IF code = "EACCES"
                                        THEN <<"Permission denied. Please check file permissions for: ", filePath>>
                                        ELSE <<"Failed to read file: ", message>>]]
    /\ UNCHANGED <<hasObject, originalAnimations, animations, inPlace, mixer,
                   animation, isPlaying, isLooping, draggedItem, draggedIndex,
                   loads, trackIn, trackOut, texVars, shellVars>>

HandleReadFile(filePath, code, message) ==
    /\ last' = [op |-> "handleReadFile",
                a |-> [filePath |-> filePath, code |-> code, message |-> message],
                b |-> 0,
                out |-> IF code = ""
                        THEN [success |-> TRUE, data |-> 10 + filePath, error |-> << >>]
                        ELSE [success |-> FALSE, data |-> 0,
                              error |-> IF code = "ENOENT"
                                        THEN <<"File not found: ", filePath>>
                                        ELSE IF code \in {"EACCES", "EPERM"}
                                        THEN <<"Permission denied. Please check file permissions for: ", filePath>>
                                        ELSE <<"Failed to read file: ", message>>]]
    /\ UNCHANGED <<hasObject, originalAnimations, animations, inPlace, mixer,
                   animation, isPlaying, isLooping, draggedItem, draggedIndex,
                   loads, trackIn, trackOut, texVars, shellVars>>

HandleWriteFile(filePath, code, message) ==
    /\ last' = [op |-> "handleWriteFile",
                a |-> [filePath |-> filePath, code |-> code, message |-> message],
                b |-> 0,
                out |-> IF code = ""
                        THEN [success |-> TRUE, error |-> << >>]
                        ELSE [success |-> FALSE,
                              error |-> IF code \in {"EACCES", "EPERM"}
                                        THEN <<"Permission denied. Please check file permissions for: ", filePath>>
                                        ELSE <<"Failed to write file: ", message>>]]
    /\ UNCHANGED <<hasObject, originalAnimations, animations, inPlace, mixer,
                   animation, isPlaying, isLooping, draggedItem, draggedIndex,
                   loads, trackIn, trackOut, texVars, shellVars>>

\* the calls of the adapter, and the source input of an Electron window: the
\* file that is loaded is the first one the adapter put on the input
NextAdapter ==
    \/ \E electron \in BOOLEAN,
          dialog \in {"null", "canceled", "noPath", "path", "rejected"},
          blob \in {"ok", "throws"},
          write \in {"success", "failure", "null", "rejected"},
          download \in {"ok", "throws"} :
          AdaptFileWriting(electron, dialog, blob, write, download)
    \/ \E electron \in BOOLEAN, file \in [path : BOOLEAN, data : {0, 1}],
          read \in {0, 2, -1} :
          AdaptFileReading(electron, file, read)
    \/ \E filePath \in 1..2, code \in {"", "ENOENT", "EACCES", "EPERM", "EIO"},
          message \in {"", "i/o error"} :
          \/ HandleReadFile(filePath, code, message)
          \/ HandleWriteFile(filePath, code, message)
    \/ FileInputClicked
    \/ \E result \in {"null", "canceled", "noFilePaths", "paths", "rejected"},
          paths \in {<< >>, <<1>>, <<2>>, <<3, 1>>}, unreadable \in SUBSET {1, 3} :
          OpenDialogClosed(result, paths, unreadable)
    \/ \E n \in 1..MaxOps, f \in FileIds :
          inputFiles # << >> /\ f = inputFiles[1] /\ SourceLoaded(n, f)
    \/ \E n \in 1..MaxOps, f \in FileIds :
          inputFiles # << >> /\ f = inputFiles[1] /\ SourceFailed(n, f)

SpecAdapter == Init /\ [][NextAdapter]_vars

\* ------------------------------------------------------------------------
\* The application restricted to loading: selections and drops of up to
\* MaxFiles files, some of which no loader can parse
\* ------------------------------------------------------------------------
NextLoads ==
    \/ OnSourceChange
    \/ \E count \in 1..MaxFiles : OnAnimationChange(count)
    \/ \E count \in 1..MaxFiles : OnAnimationDrop(count)
    \/ \E n \in 1..MaxOps, f \in LoadFileIds : SourceLoaded(n, f)
    \/ \E n \in 1..MaxOps, f \in LoadFileIds : SourceFailed(n, f)
    \/ \E n \in 1..MaxOps, f \in LoadFileIds : AnimationFileLoaded(n, f)
    \/ \E n \in 1..MaxOps, f \in LoadFileIds : AnimationFileFailed(n, f)
    \/ \E k \in 1..MaxClips : ClickAnimation(k)
    \/ \E k \in 1..MaxClips : DeleteAnimation(k)
    \/ OnInPlaceToggle

SpecLoads == Init /\ [][NextLoads]_vars

\* ------------------------------------------------------------------------
\* Several load operations in flight at once: the handlers that start a load
\* do not look at the loads already pending, and each completion runs to its
\* end before the next one starts
\* ------------------------------------------------------------------------
NextInFlight ==
    \/ Len(loads) < MaxInFlight /\ SourceChosen
    \/ \E count \in 1..MaxFiles :
          Len(loads) < MaxInFlight /\ AnimationFilesChosen(count)
    \/ \E count \in 1..MaxFiles :
          Len(loads) < MaxInFlight /\ AnimationFilesDropped(count)
    \/ \E n \in 1..MaxInFlight, f \in FileIds : SourceLoaded(n, f)
    \/ \E n \in 1..MaxInFlight, f \in FileIds : SourceFailed(n, f)
    \/ \E n \in 1..MaxInFlight, f \in FileIds :
          /\ Len(originalAnimations) + ClipCount(f) <= MaxInFlightClips
          /\ AnimationFileParsed(n, f)
    \/ \E n \in 1..MaxInFlight, f \in FileIds : AnimationFileFailed(n, f)
    \/ OnInPlaceToggle

SpecInFlight == Init /\ [][NextInFlight]_vars

\* ------------------------------------------------------------------------
\* Files dropped on an item of the list.  The items are children of this.$ui:
\* the drop event first runs the drop listener updateUI gave the item, then
\* bubbles to the listener of this.$ui, onAnimationDrop (an exception in the
\* first listener does not stop the dispatch).  No dragstart of an item
\* precedes the drop of files, so this.draggedItem and this.draggedIndex are
\* what the last drag of an item left.
\* ------------------------------------------------------------------------
FilesDroppedOnItem(t, count) ==
    /\ t \in 1..UICount(animations)
    /\ Len(loads) < MaxOps
    /\ IF draggedItem # t
       THEN /\ animations' = MoveAnimation(animations, draggedIndex, t)
            /\ draggedItem' = UpdateUIDragged(draggedItem)
       ELSE UNCHANGED <<animations, draggedItem>>
    /\ animation' = Detach(animation, animations')
    /\ loads' = Append(loads, NewLoad("drop", count, ~hasObject))
    /\ last' = [op |-> "filedrop", a |-> draggedIndex, b |-> t, out |-> << >>]
    /\ UNCHANGED <<hasObject, originalAnimations, inPlace, mixer,
                   isPlaying, isLooping, draggedIndex,
                   trackIn, trackOut, texVars, shellVars>>

NextFileDrop ==
    \/ OnSourceChange
    \/ \E n \in 1..MaxOps, f \in FileIds : SourceLoaded(n, f)
    \/ \E count \in 1..MaxSel : OnAnimationDrop(count)
    \/ \E t \in 1..MaxClips, count \in 1..MaxSel : FilesDroppedOnItem(t, count)
    \/ \E n \in 1..MaxOps, f \in FileIds : AnimationFileLoaded(n, f)
    \/ \E n \in 1..MaxOps, f \in FileIds : AnimationFileFailed(n, f)
    \/ \E k \in 1..MaxClips : DragStart(k)
    \/ \E t \in 1..MaxClips : draggedItem >= 1 /\ ItemDrop(t)

SpecFileDrop == Init /\ [][NextFileDrop]_vars

\* ------------------------------------------------------------------------
\* Several texture files pending at once: a second file is chosen through an
\* input of the PBR panel while the file chosen before is still read or
\* decoded, and the files are decoded in any order
\* ------------------------------------------------------------------------
NextImages ==
    \/ OnSourceChange
    \/ \E n \in 1..MaxOps : SourceLoaded(n, 1)
    \/ Len(imageLoads) < MaxImagesInFlight /\ ImageChosen("packed", "aoMap")
    \/ \E mapType \in {"map", "normalMap"} :
          Len(imageLoads) < MaxImagesInFlight /\ ImageChosen("pbr", mapType)
    \/ \E n \in 1..MaxImagesInFlight : ImageFailed(n)
    \/ \E n \in 1..MaxImagesInFlight : PackedTextureLoaded(n)
    \/ \E n \in 1..MaxImagesInFlight : PBRTextureLoaded(n)

SpecImages == Init /\ [][NextImages]_vars

\* the application with the click on a list item that activates its clip
NextPlayback ==
    \/ Next
    \/ \E k \in 1..MaxClips : ClickAnimation(k)

SpecPlayback == Init /\ [][NextPlayback]_vars

\* ------------------------------------------------------------------------
\* makeAnimationsInPlace on its own: one clip with a track drawn from the
\* track universe, processed once and then once more
\* ------------------------------------------------------------------------
\* names of tracks: <node>.<property>
TrackNames ==
    { <<"H","i","p","s",".","p","o","s","i","t","i","o","n">>,
      <<"R","O","O","T",".","p","o","s","i","t","i","o","n">>,
      <<"m","y","P","e","l","v","i","s","1",".","p","o","s","i","t","i","o","n">>,
      <<"S","p","i","n","e",".","p","o","s","i","t","i","o","n">>,
      <<"H","i","p","s",".","s","c","a","l","e">>,
      <<"r","o","o","t","_","p","o","s","i","t","i","o","n",".","s","c","a","l","e">>,
      <<"H","i","p","s",".","q","u","a","t","e","r","n","i","o","n">> }

sQuaternion == <<"q","u","a","t","e","r","n","i","o","n">>

\* components of one keyframe of the property a track animates
Stride(name) == IF SplitLast(name) = sQuaternion THEN 4 ELSE 3

\* keyframe values are 0 or 1
TrackUniverse ==
    { [name |-> nm, times |-> [k \in 1..n |-> 100 * (k - 1)], values |-> v] :
        nm \in TrackNames, n \in 1..MaxKeys, v \in [1..(4 * MaxKeys) -> {0, 1}] }

\* the tracks of the universe whose values array has the length the
\* property asks for
WellFormedTracks ==
    { [t EXCEPT !.values = SubSeq(t.values, 1, Stride(t.name) * Len(t.times))] :
        t \in TrackUniverse }

InitInPlace ==
    /\ AppInit
    /\ filenameInput = <<"m","e","r","g","e","d">>
    /\ \E t \in WellFormedTracks :
          trackIn = << [name |-> <<"c">>, tracks |-> <<t, trkSpineQuaternion>>,
                       duration |-> 100 * (Len(t.times) - 1)] >>
    /\ trackOut = << >>

ApplyInPlace ==
    /\ Len(trackOut) < 2
    /\ trackOut' = Append(trackOut,
                          MakeAnimationsInPlace(IF trackOut = << >> THEN trackIn
                                                ELSE trackOut[Len(trackOut)]))
    /\ trackIn' = ArgumentAfterInPlace(trackIn)
    /\ UNCHANGED appVars

NextInPlace == ApplyInPlace

SpecInPlace == InitInPlace /\ [][NextInPlace]_vars


\* ------------------------------------------------------------------------
\* Properties
\* ------------------------------------------------------------------------
\* the clips of this.originalAnimations no clip of the list was made from
DeletedClips ==
    {o \in 1..Len(originalAnimations) :
        \A k \in 1..Len(animations) : animations[k].src # o}

\* C1: the list handed to the encoder by an export is the current
\* this.object.animations - same clips, order and names - and each of its
\* clips holds the root-motion-removed tracks of its original when the
\* In Place mode is on and the tracks of its original when it is off.
C1_ExportHandsOverActiveClips ==
    last.op = "export" =>
        /\ last.out = animations
        /\ \A k \in 1..Len(last.out) :
              last.out[k] # Undefined =>
                 /\ last.out[k].src \in 1..Len(originalAnimations)
                 /\ last.out[k].tracks =
                       IF inPlace
                       THEN ClipInPlace(originalAnimations[last.out[k].src]).tracks
                       ELSE originalAnimations[last.out[k].src].tracks

\* an export in In Place mode after a delete, of a clip whose root motion
\* was removed
C1_Witness ==
    /\ last.op = "export"
    /\ inPlace
    /\ Len(last.out) >= 1
    /\ Len(last.out) < Len(originalAnimations)
    /\ \E k \in 1..Len(last.out) :
          last.out[k].tracks # originalAnimations[last.out[k].src].tracks

\* C2: makeAnimationsInPlace gives every position track of a node whose name
\* contains hips, root or pelvis (in any case) the x and z of the input's
\* first keyframe at every keyframe, keeps y, and keeps the number of
\* keyframes and their times.
C2_RootMotionRemoved ==
    trackOut # << >> =>
        LET inTracks == trackIn[1].tracks
            outTracks == trackOut[1][1].tracks
        IN  /\ Len(outTracks) = Len(inTracks)
            /\ \A j \in 1..Len(inTracks) :
                  LET node == ToLowerCase(StripExtension(inTracks[j].name))
                  IN  (/\ SplitLast(inTracks[j].name) = sPosition
                       /\ \/ Includes(node, sHips)
                          \/ Includes(node, sRoot)
                          \/ Includes(node, sPelvis))
                      => /\ outTracks[j].times = inTracks[j].times
                         /\ Len(outTracks[j].values) = Len(inTracks[j].values)
                         /\ \A i \in 0..(Len(inTracks[j].times) - 1) :
                               /\ outTracks[j].values[3 * i + 1] = inTracks[j].values[1]
                               /\ outTracks[j].values[3 * i + 2] = inTracks[j].values[3 * i + 2]
                               /\ outTracks[j].values[3 * i + 3] = inTracks[j].values[3]

\* a processed position track of a root node that moved in x and in z
C2_Witness ==
    /\ trackOut # << >>
    /\ SplitLast(trackIn[1].tracks[1].name) = sPosition
    /\ Includes(ToLowerCase(StripExtension(trackIn[1].tracks[1].name)), sPelvis)
    /\ Len(trackIn[1].tracks[1].times) >= 2
    /\ trackIn[1].tracks[1].values[4] # trackIn[1].tracks[1].values[1]
    /\ trackIn[1].tracks[1].values[6] # trackIn[1].tracks[1].values[3]
    /\ trackIn[1].tracks[1].values[5] # trackIn[1].tracks[1].values[2]
    /\ trackOut[1][1].tracks[1] # trackIn[1].tracks[1]

\* C3: the keyframe data (tracks with their times and values, duration) of
\* an entry of this.originalAnimations is the parsed data it was added with
\* and no handler changes it afterwards; only a newly loaded model replaces
\* the entries.
C3_OriginalsKeepKeyframes ==
    [][ /\ last'.op # "model" =>
             /\ Len(originalAnimations') >= Len(originalAnimations)
             /\ \A k \in 1..Len(originalAnimations) :
                   /\ originalAnimations'[k].tracks = originalAnimations[k].tracks
                   /\ originalAnimations'[k].duration = originalAnimations[k].duration
        /\ last'.op = "add" =>
             \A j \in 1..Len(FileClips(last'.a)) :
                /\ originalAnimations'[Len(originalAnimations) + j].tracks
                      = FileClips(last'.a)[j].tracks
                /\ originalAnimations'[Len(originalAnimations) + j].duration
                      = FileClips(last'.a)[j].duration
        /\ last'.op = "model" =>
             /\ Len(originalAnimations') = Len(FileClips(last'.a))
             /\ \A j \in 1..Len(FileClips(last'.a)) :
                   /\ originalAnimations'[j].tracks = FileClips(last'.a)[j].tracks
                   /\ originalAnimations'[j].duration = FileClips(last'.a)[j].duration
      ]_vars

\* the In Place mode was just switched on while a clip was playing and
\* changed the tracks of a clip of the list, whose original still has its
\* root motion
C3_Witness ==
    /\ last.op = "toggle"
    /\ last.a = 1
    /\ inPlace
    /\ animation.attached
    /\ animation.running
    /\ \E k \in 1..Len(animations) :
          /\ animations[k].tracks # originalAnimations[animations[k].src].tracks
          /\ \E f \in FileIds : \E j \in 1..Len(FileClips(f)) :
                originalAnimations[animations[k].src].tracks = FileClips(f)[j].tracks

\* C4: switching the In Place mode on and then off again leaves
\* this.object.animations structurally equal to this.originalAnimations
\* (same names, tracks, durations, in the same order).
C4_ToggleRoundTrip ==
    [][ (/\ last.op = "toggle"
         /\ inPlace
         /\ last'.op = "toggle"
         /\ ~inPlace')
        => /\ Len(animations') = Len(originalAnimations')
           /\ \A k \in 1..Len(animations') :
                 /\ animations'[k].name = originalAnimations'[k].name
                 /\ animations'[k].tracks = originalAnimations'[k].tracks
                 /\ animations'[k].duration = originalAnimations'[k].duration
      ]_vars

\* C5: every clip of this.object.animations holds the root-motion-removed
\* tracks of its original when the In Place mode is on and the tracks of its
\* original when it is off, whatever the mode was when its load started.
C5_ModeAppliedToEveryClip ==
    \A k \in 1..Len(animations) :
        animations[k] # Undefined =>
           /\ animations[k].src \in 1..Len(originalAnimations)
           /\ animations[k].duration = originalAnimations[animations[k].src].duration
           /\ animations[k].tracks =
                 IF inPlace
                 THEN MakeAnimationsInPlace(
                         <<originalAnimations[animations[k].src]>>)[1].tracks
                 ELSE originalAnimations[animations[k].src].tracks

\* a file read that was under way when the mode was switched on has just
\* added a clip after an earlier one, and both have their root motion removed
C5_Witness ==
    /\ last.op = "add"
    /\ last.b = 1
    /\ inPlace
    /\ Len(animations) >= 2
    /\ \A k \in 1..Len(animations) :
          animations[k].tracks # originalAnimations[animations[k].src].tracks

\* C6: a clip the user deleted never comes back into this.object.animations,
\* whatever is toggled, added, renamed or moved afterwards, until a new model
\* is loaded.
C6_DeletedStaysDeleted ==
    [][ last'.op # "model" => DeletedClips \subseteq DeletedClips' ]_vars

\* C7: saving a name on item i gives that name to the clip at index i of
\* this.object.animations and to the original that clip was made from, and
\* changes the name of no other clip and of no other original.
C7_RenameReachesItsOriginal ==
    [][ last'.op = "rename" =>
          LET k == last'.a
              o == animations[k].src
          IN  /\ Len(animations') = Len(animations)
              /\ Len(originalAnimations') = Len(originalAnimations)
              /\ originalAnimations'[o].name = animations'[k].name
              /\ \A m \in 1..Len(animations) :
                    m # k => animations'[m].name = animations[m].name
              /\ \A m \in 1..Len(originalAnimations) :
                    m # o => originalAnimations'[m].name = originalAnimations[m].name
      ]_vars

\* C8: a file with k clips that is added puts k entries at the end of both
\* lists, leaves the earlier entries as they were, names the new entries with
\* the file's base name (the file name without its extension), stores the
\* parsed tracks as originals and the tracks processed according to the mode
\* in this.object.animations.
C8_AddAppendsNamedByBaseName ==
    [][ last'.op = "add" =>
          LET f == last'.a
              k == Len(FileClips(f))
              n == Len(originalAnimations)
              m == Len(animations)
          IN  /\ Len(originalAnimations') = n + k
              /\ Len(animations') = m + k
              /\ SubSeq(originalAnimations', 1, n) = originalAnimations
              /\ SubSeq(animations', 1, m) = animations
              /\ \A j \in 1..k :
                    /\ originalAnimations'[n + j].name = StripExtension(FileName(f))
                    /\ originalAnimations'[n + j].tracks = FileClips(f)[j].tracks
                    /\ animations'[m + j].name = StripExtension(FileName(f))
                    /\ animations'[m + j].tracks =
                          IF inPlace'
                          THEN ClipInPlace(FileClips(f)[j]).tracks
                          ELSE FileClips(f)[j].tracks
      ]_vars

\* C8 with the name the code gives: the part of the file name before its
\* first dot.
C8_AddAppendsNamedByFirstPart ==
    [][ last'.op = "add" =>
          LET f == last'.a
              k == Len(FileClips(f))
              n == Len(originalAnimations)
              m == Len(animations)
          IN  /\ Len(originalAnimations') = n + k
              /\ Len(animations') = m + k
              /\ SubSeq(originalAnimations', 1, n) = originalAnimations
              /\ SubSeq(animations', 1, m) = animations
              /\ \A j \in 1..k :
                    /\ originalAnimations'[n + j].name = SplitFirst(FileName(f))
                    /\ originalAnimations'[n + j].tracks = FileClips(f)[j].tracks
                    /\ animations'[m + j].name = SplitFirst(FileName(f))
                    /\ animations'[m + j].tracks =
                          IF inPlace'
                          THEN ClipInPlace(FileClips(f)[j]).tracks
                          ELSE FileClips(f)[j].tracks
      ]_vars

\* C9: the delete button of an item takes exactly that item's clip out of
\* this.object.animations - the clips before it and after it stay, in order -
\* and leaves this.originalAnimations as it was.
C9_DeleteRemovesThatClip ==
    [][ last'.op = "delete" =>
          LET k == last'.a
          IN  /\ Len(animations') = Len(animations) - 1
              /\ \A m \in 1..Len(animations') :
                    animations'[m] = IF m < k THEN animations[m] ELSE animations[m + 1]
              /\ originalAnimations' = originalAnimations
      ]_vars

\* the second of two clips of the same name was deleted and the first is
\* still in the list
C9_Witness ==
    /\ last.op = "delete"
    /\ last.a = 2
    /\ Len(animations) = 1
    /\ Len(originalAnimations) = 2
    /\ animations[1].src = 1
    /\ originalAnimations[1].name = originalAnimations[2].name

C11_OtherTracksPassThrough ==
    trackOut # << >> =>
        LET inTracks == trackIn[1].tracks
            outTracks == trackOut[1][1].tracks
        IN  /\ Len(outTracks) = Len(inTracks)
            /\ \A j \in 1..Len(inTracks) :
                  LET node == ToLowerCase(StripExtension(inTracks[j].name))
                  IN  ~ (/\ SplitLast(inTracks[j].name) = sPosition
                         /\ \/ Includes(node, sHips)
                            \/ Includes(node, sRoot)
                            \/ Includes(node, sPelvis))
                      => /\ outTracks[j].times = inTracks[j].times
                         /\ outTracks[j].values = inTracks[j].values

\* C12: makeAnimationsInPlace applied to its own result gives a clip whose
\* every track equals the track of that result.
C12_InPlaceIdempotent ==
    Len(trackOut) = 2 =>
        /\ Len(trackOut[2]) = Len(trackOut[1])
        /\ \A c \in 1..Len(trackOut[1]) :
              /\ Len(trackOut[2][c].tracks) = Len(trackOut[1][c].tracks)
              /\ \A j \in 1..Len(trackOut[1][c].tracks) :
                    trackOut[2][c].tracks[j] = trackOut[1][c].tracks[j]

\* the function was applied twice to a clip whose first track is a root
\* position track that the first application changed in x and not to its z
C12_Witness ==
    /\ Len(trackOut) = 2
    /\ trackOut[1][1].tracks[1] # trackIn[1].tracks[1]
    /\ Len(trackIn[1].tracks[1].times) >= 2
    /\ trackIn[1].tracks[1].values[1] # trackIn[1].tracks[1].values[3]
    /\ trackIn[1].tracks[1].values[4] # trackIn[1].tracks[1].values[1]

\* C13: when the In Place checkbox is switched while a clip of the list is
\* active, the active action afterwards is bound to the entry of the
\* recomputed list that has the name of the clip that was active, its time is
\* zero, it is playing exactly if this.isPlaying was set before the switch,
\* and no action on a clip object of the old list is left running.
C13_ToggleRestartsActiveClip ==
    [][ (/\ last'.op = "toggle"
         /\ animation # NoAnimation
         /\ animation.attached
         /\ animation.running)
        => /\ animation'.attached
           /\ \E k \in 1..Len(animations') :
                 /\ animations'[k] = animation'.clip
                 /\ animations'[k].name = animation.clip.name
           /\ animation'.time = 0
           /\ animation'.running = isPlaying
      ]_vars

\* C14: whenever a clip is active, its action is LoopOnce and clamped when
\* finished if the clip is a static pose, whatever this.isLooping is, and
\* otherwise LoopRepeat if this.isLooping is set and LoopOnce if it is not -
\* also after toggleLoop and after a switch of the In Place checkbox.
C14_LoopModeFollowsPoseAndFlag ==
    animation # NoAnimation =>
        IF animation.clip.duration < 10
        THEN animation.loop = "LoopOnce" /\ animation.clamp
        ELSE animation.loop = IF isLooping THEN "LoopRepeat" ELSE "LoopOnce"

\* C15: a clip is a static pose exactly if its duration is below 0.01 s
\* (10 ms), and clip activation, the render tick and the progress display
\* all use that rule: activation clamps exactly the static poses, the render
\* tick advances the mixer exactly if it is set, playing and the active clip
\* is no static pose, and the display shows 100 for a static pose and the
\* elapsed share for another clip.
C15_StaticPoseRuleEverywhere ==
    [][ /\ (last'.op = "click" /\ mixer) =>
              LET static == animations[last'.a].duration < 10
              IN  /\ animation'.clamp = static
                  /\ static => animation'.loop = "LoopOnce"
        /\ last'.op = "render" =>
              LET static == animation # NoAnimation /\ animation.clip.duration < 10
              IN  /\ (last'.a = 1) = (mixer /\ isPlaying /\ ~static)
                  /\ static => last'.b = 100 /\ animation'.time = animation.time
                  /\ (animation # NoAnimation /\ ~static /\ last'.a = 0
                        /\ animation.time = 0) => last'.b = 0
      ]_vars

\* a frame has just advanced the mixer for the active clip of duration 0.01 s
C15_Witness ==
    /\ last.op = "render"
    /\ last.a = 1
    /\ animation.clip.duration = 10
    /\ animation.running
    /\ ~animation.clamp

\* ------------------------------------------------------------------------
\* C16  A source model whose load fails leaves the session as it was: the
\*      model stays set, the mixer stays, the active action is untouched and
\*      both clip lists are the lists of before.
\* ------------------------------------------------------------------------
C16_FailedModelLoadKeepsSession ==
    [][ last'.op = "modelfail"
        => /\ hasObject' = hasObject
           /\ mixer' = mixer
           /\ animation' = animation
           /\ originalAnimations' = originalAnimations
           /\ animations' = animations
      ]_vars

\* ------------------------------------------------------------------------
\* C17  An animation file whose load fails leaves this.originalAnimations
\*      and this.object.animations as they were before that file, the clips
\*      of the earlier files of the selection included.
\* ------------------------------------------------------------------------
C17_FailedFileAddsNothing ==
    [][ last'.op = "addfail"
        => /\ originalAnimations' = originalAnimations
           /\ animations' = animations
      ]_vars

\* the second file of a selection failed after the first had added its clip
\* to the clip of the model
C17_Witness ==
    /\ last.op = "addfail"
    /\ last.b = 1
    /\ Len(animations) = 2
    /\ Len(originalAnimations) = 2
    /\ animations[2].name = ClipNameOf(1)

C19_NoHalfAppliedMixture ==
    \A i \in 1..Len(meshes) : \A j \in 1..Len(meshes[i].material) :
        LET maps == meshes[i].material[j].maps
        IN  ~ /\ packedTexture # 0
              /\ \E m \in PackedMapTypes : maps[m] = packedTexture
              /\ \E m \in PackedMapTypes :
                    /\ maps[m] # 0
                    /\ textures[maps[m]].origin = "separate"

\* ------------------------------------------------------------------------
\* C20  Every texture bound to the map or emissiveMap slot of a material of
\*      the model is tagged sRGB, every texture bound to another slot is
\*      tagged Linear.
\* ------------------------------------------------------------------------
C20_SlotColorSpaces ==
    \A i \in 1..Len(meshes) : \A j \in 1..Len(meshes[i].material) :
        \A m \in MapTypes :
            LET texture == meshes[i].material[j].maps[m]
            IN  texture # 0 =>
                    textures[texture].colorSpace =
                        IF m \in {"map", "emissiveMap"}
                        THEN SRGBColorSpace
                        ELSE LinearSRGBColorSpace

\* ------------------------------------------------------------------------
\* C21  Once a model is loaded, every material of its meshes is a PBR
\*      material (MeshStandardMaterial or MeshPhysicalMaterial), whatever
\*      the class of the parsed material and whatever the texture type.
\* ------------------------------------------------------------------------
C21_EveryMaterialIsPBR ==
    hasObject =>
        \A i \in 1..Len(meshes) : \A j \in 1..Len(meshes[i].material) :
            meshes[i].material[j].kind \in {"MeshStandardMaterial", "MeshPhysicalMaterial"}

\* ------------------------------------------------------------------------
\* C22  The materials of a loaded model have the color, the transparent
\*      flag and the opacity of the parsed materials, with or without a
\*      base-color map, and a later application of PBR textures keeps them.
\* ------------------------------------------------------------------------
C22_LookPreserved ==
    [][ /\ last'.op = "model"
           => LET parsed == FileMeshes(last'.a, Len(textures))
              IN  /\ Len(meshes') = Len(parsed)
                  /\ \A i \in 1..Len(parsed) :
                        /\ Len(meshes'[i].material) = Len(parsed[i].material)
                        /\ \A j \in 1..Len(parsed[i].material) :
                              LookOf(meshes'[i].material[j]) = LookOf(parsed[i].material[j])
        /\ (last'.op \in {"packed", "pbr", "texture", "add"} /\ hasObject)
           => /\ Len(meshes') = Len(meshes)
              /\ \A i \in 1..Len(meshes) : \A j \in 1..Len(meshes[i].material) :
                    LookOf(meshes'[i].material[j]) = LookOf(meshes[i].material[j])
      ]_vars

\* ------------------------------------------------------------------------
\* C23  A base-color map of a material survives every conversion of the
\*      material, at the load of the model and when PBR textures are
\*      applied, unless a base-color texture of the user replaces it.
\* ------------------------------------------------------------------------
C23_BaseColorMapCarriedOver ==
    [][ /\ last'.op = "model"
           => LET parsed == FileMeshes(last'.a, Len(textures))
                  replaced == \/ textureType = "shaded" /\ customTexture # 0
                              \/ textureType = "pbr" /\ pbrTextures["map"] # 0
              IN  \A i \in 1..Len(parsed) : \A j \in 1..Len(parsed[i].material) :
                     (parsed[i].material[j].maps["map"] # 0 /\ ~replaced)
                     => meshes'[i].material[j].maps["map"] = parsed[i].material[j].maps["map"]
        /\ (last'.op \in {"packed", "pbr", "add"} /\ hasObject)
           => \A i \in 1..Len(meshes) : \A j \in 1..Len(meshes[i].material) :
                 (meshes[i].material[j].maps["map"] # 0 /\ pbrTextures'["map"] = 0)
                 => meshes'[i].material[j].maps["map"] = meshes[i].material[j].maps["map"]
      ]_vars

C25_ExportFilename ==
    [][ LET UserGave(value) == value \in FilenameInputs /\ Trim(value) # << >>
        IN  /\ last'.op = "export"
               => /\ EndsWith(last'.b, sDotGlb)
                  /\ UserGave(filenameInput)
                     => last'.b = WithoutGltfExtension(Trim(filenameInput)) \o sDotGlb
                  /\ LET name == SubSeq(last'.b, 1, Len(last'.b) - 4)
                     IN  /\ ~EndsWith(ToLowerCase(name), sDotGlb)
                         /\ ~EndsWith(ToLowerCase(name), sDotGltf)
            /\ (last'.op = "model" /\ ~UserGave(filenameInput'))
               => ExportFilename(filenameInput') = StripExtension(FileName(last'.a)) \o sDotGlb
      ]_vars

\* ------------------------------------------------------------------------
\* C26  When the encoder reports a failure the export ends there: the
\*      encoder is not invoked again, nothing is handed to a save dialog or
\*      a download, and the export control is enabled and no longer shown
\*      as loading, so that the next click starts a new export.
\* ------------------------------------------------------------------------
C26_EncoderFailureEndsExport ==
    [][ last'.op = "encoderFailed"
        => /\ exportCtl'.parses = exportCtl.parses
           /\ exportCtl'.saves = exportCtl.saves
           /\ exportCtl'.pending = "none"
           /\ ~exportCtl'.disabled
           /\ ~exportCtl'.loading
           /\ ~exportCtl'.success
      ]_vars

\* a second export was started after the first one failed in the encoder
C26_Witness ==
    /\ last.op = "encoderFailed"
    /\ exportCtl.parses = 2
    /\ exportCtl.saves = 0

\* ------------------------------------------------------------------------
\* C27  A rename never stores an empty name: when the text of the input is
\*      empty or blank, the renamed clip is called Animation_<index>, and
\*      that name is the one held at the index in the list of originals too.
\* ------------------------------------------------------------------------
C27_BlankRenameStoresFallback ==
    [][ last'.op = "rename"
        => LET k == last'.a
               fallback == sAnimationUnderscore \o DigitString(k - 1)
           IN  /\ animations'[k].name # << >>
               /\ animations'[k].name # animations[k].name
                    => /\ animations'[k].name = fallback
                       /\ k \in 1..Len(originalAnimations')
                       /\ originalAnimations'[k].name = fallback
      ]_vars

\* the second item has been renamed with a blank text
C27_Witness ==
    /\ last.op = "rename"
    /\ last.a = 2
    /\ animations[2].name = <<"A","n","i","m","a","t","i","o","n","_","1">>
    /\ originalAnimations[2].name = animations[2].name

\* ------------------------------------------------------------------------
\* C28  adaptFileWriting never throws; it answers true only when the data
\*      was handed over (writeFile reported success, or a download link was
\*      clicked); it answers false when the save dialog is cancelled, and
\*      then writeFile is not called, when writeFile reports a failure, and
\*      when the Electron path throws and the download throws as well.
\* ------------------------------------------------------------------------
C28_WritingNeverThrows ==
    [][ last'.op = "adaptFileWriting"
        => LET in == last'.a
               out == last'.out
               written == in.dialog = "path" /\ in.blob = "ok" /\ in.write = "success"
               thrown == \/ in.dialog = "rejected"
                         \/ in.dialog = "path" /\ in.blob = "throws"
                         \/ in.dialog = "path" /\ in.blob = "ok" /\ in.write = "rejected"
           IN  /\ out.result # "throws"
               /\ out.result = "true" => (in.electron /\ written) \/ out.downloads = 1
               /\ (in.electron /\ in.dialog = "canceled")
                     => out.result = "false" /\ out.writeFile = 0
               /\ (in.electron /\ in.dialog = "path" /\ in.blob = "ok"
                      /\ in.write = "failure")
                     => out.result = "false"
               /\ (in.electron /\ thrown /\ in.download = "throws")
                     => out.result = "false"
      ]_vars

\* ------------------------------------------------------------------------
\* C29  In Electron, adaptFileReading of a file object that carries data
\*      answers that very object and does not call readFile, whether the
\*      object has a path as well or not; a file object with a path and no
\*      data is read with readFile.
\* ------------------------------------------------------------------------
C29_ReadingPrefersData ==
    [][ (last'.op = "adaptFileReading" /\ last'.a.electron)
        => LET file == last'.a.file
               out == last'.out
           IN  /\ file.data # 0 => out.result = file.data /\ out.readFile = 0
               /\ (file.path /\ file.data = 0) => out.readFile = 1
      ]_vars

\* ------------------------------------------------------------------------
\* C30  When the native open dialog hands over no file (it was cancelled,
\*      it answered without paths, it failed, or no selected file could be
\*      read), the files of the input are as before, no load has started,
\*      the label is no longer shown as loading and the model, the clips
\*      and the textures are as they were.
\* ------------------------------------------------------------------------
C30_CancelledDialogChangesNothing ==
    [][ (last'.op = "dialog" /\ (last'.a # "paths" \/ last'.b = 0))
        => /\ inputFiles' = inputFiles
           /\ loads' = loads
           /\ ~labelLoading'
           /\ ~dialogOpen'
           /\ UNCHANGED <<hasObject, originalAnimations, animations, inPlace, mixer,
                          animation, isPlaying, isLooping, texVars, filenameInput,
                          exportCtl>>
      ]_vars

\* with a model loaded through the dialog, a later selection of which no
\* file could be read has been handled
C30_Witness ==
    /\ last.op = "dialog"
    /\ last.a = "paths"
    /\ last.b = 0
    /\ hasObject
    /\ inputFiles # << >>

\* ------------------------------------------------------------------------
\* C31  handleReadFile and handleWriteFile always answer with a result:
\*      on success error is null and a read carries the bytes of the file;
\*      on a failure success is false, the message is not empty, it is the
\*      permission message with the path exactly when the code is EACCES or
\*      EPERM, and a failed read carries no data.
\* ------------------------------------------------------------------------
C31_FileHandlersReport ==
    [][ last'.op \in {"handleReadFile", "handleWriteFile"}
        => LET in == last'.a
               out == last'.out
               permission ==
                   <<"Permission denied. Please check file permissions for: ", in.filePath>>
           IN  /\ out.success \in BOOLEAN
               /\ out.success <=> in.code = ""
               /\ out.success => out.error = << >>
               /\ (out.success /\ last'.op = "handleReadFile")
                     => out.data = 10 + in.filePath
               /\ ~out.success
                     => /\ \E i \in 1..Len(out.error) : out.error[i] # ""
                        /\ out.error = permission <=> in.code \in {"EACCES", "EPERM"}
                        /\ last'.op = "handleReadFile" => out.data = 0
      ]_vars

\* a read has failed for lack of permission with an empty message of fs
C31_Witness ==
    /\ last.op = "handleReadFile"
    /\ last.a.code = "EPERM"
    /\ last.a.message = ""
    /\ ~last.out.success

\* ------------------------------------------------------------------------
\* C32  restoreWindowState after saveWindowState on the same store returns
\*      the saved width, height and isMaximized; x and y are both the saved
\*      values when the centre of the window lies on a display, and both
\*      absent otherwise; with nothing saved it returns 1280 x 800, not
\*      maximized, without a position.
\* ------------------------------------------------------------------------
C32_WindowStateRoundTrip ==
    [][ last'.op = "restoreWindowState"
        => LET out == last'.out
           IN  IF windowStore = << >>
               THEN out = [x |-> << >>, y |-> << >>, width |-> 1280, height |-> 800,
                           isMaximized |-> FALSE]
               ELSE LET saved == windowStore[1]
                        centred ==
                            \E display \in last'.a.displays :
                               /\ 2 * saved.x[1] + saved.width >= 2 * display.x
                               /\ 2 * saved.x[1] + saved.width
                                     < 2 * (display.x + display.width)
                               /\ 2 * saved.y[1] + saved.height >= 2 * display.y
                               /\ 2 * saved.y[1] + saved.height
                                     < 2 * (display.y + display.height)
                    IN  /\ out.width = saved.width
                        /\ out.height = saved.height
                        /\ out.isMaximized = saved.isMaximized
                        /\ \/ out.x = saved.x /\ out.y = saved.y
                           \/ out.x = << >> /\ out.y = << >>
                        /\ centred => out.x = saved.x /\ out.y = saved.y
                        /\ (last'.a.available /\ ~centred) => out.x = << >>
      ]_vars

\* a window whose corner is on the only display and whose centre is not has
\* been restored without its position
C32_Witness ==
    /\ last.op = "restoreWindowState"
    /\ windowStore # << >>
    /\ windowStore[1].x = <<3>>
    /\ windowStore[1].width = 3
    /\ last.a.available
    /\ last.out.x = << >>
    /\ last.out.width = 3

\* ------------------------------------------------------------------------
\* C33  When the image of a texture handler is bound to a slot of a material
\*      of the model that held another texture, that texture has been
\*      disposed: no replaced texture stays allocated.
\* ------------------------------------------------------------------------
C33_ReplacedTextureDisposed ==
    [][ last'.op \in {"texture", "packed", "pbr"}
        => \A i \in 1..Len(meshes) : \A j \in 1..Len(meshes[i].material) :
              \A m \in MapTypes :
                 LET old == meshes[i].material[j].maps[m]
                     new == meshes'[i].material[j].maps[m]
                 IN  (old # 0 /\ new # 0 /\ new # old) => textures'[old].disposed
      ]_vars

\* ------------------------------------------------------------------------
\* C36  No texture is disposed while it is referenced: a texture bound to a
\*      slot of a material of the model, or held by the session for the
\*      models to come (this.customTexture, this.packedTexture, the values
\*      of this.pbrTextures), is not in the disposed state.
\* ------------------------------------------------------------------------
C36_ReferencedTextureNotDisposed ==
    LET bound == IF hasObject THEN SlotTextures(meshes, MapTypes) ELSE {}
        held == ({customTexture, packedTexture}
                    \cup {pbrTextures[m] : m \in DOMAIN pbrTextures}) \ {0}
    IN  \A t \in bound \cup held : ~textures[t].disposed

\* ------------------------------------------------------------------------
\* C35  Every load operation runs to its end whether its files parse or not:
\*      when a file of a selection of several files fails, the operation goes
\*      on with the files that remain (and clears its loading indicator after
\*      the last of them).  Stated for the operation that is alone in flight:
\*      after the failure it is still there, with one file less to load.
\* ------------------------------------------------------------------------
C35_FailedFileDoesNotEndOperation ==
    [][(last'.op = "addfail" /\ Len(loads) = 1 /\ loads[1].remaining > 1)
          => (Len(loads') = 1 /\ loads'[1].remaining = loads[1].remaining - 1)]_vars

\* ------------------------------------------------------------------------
\* C34  Clips enter the lists in the order in which the loads of their files
\*      complete: the completion of a file appends the clips of that file, in
\*      the order of the file, as one block at the end of
\*      this.originalAnimations and of this.object.animations and leaves the
\*      entries before the block as they were, also while another load
\*      operation is in flight; the operation then goes on with its next file
\*      (or ends) and the other operations in flight stay as they are.
\* ------------------------------------------------------------------------
C34_CompletionAppendsOneBlock ==
    [][last'.op = "add" =>
        LET f == last'.a
            clips == FileClips(f)
            n0 == Len(originalAnimations)
            m0 == Len(animations)
        IN  /\ Len(originalAnimations') = n0 + Len(clips)
            /\ SubSeq(originalAnimations', 1, n0) = originalAnimations
            /\ \A k \in 1..Len(clips) :
                  /\ originalAnimations'[n0 + k].tracks = clips[k].tracks
                  /\ originalAnimations'[n0 + k].duration = clips[k].duration
            /\ Len(animations') = m0 + Len(clips)
            /\ SubSeq(animations', 1, m0) = animations
            /\ \A k \in 1..Len(clips) :
                  /\ animations'[m0 + k].name = ClipNameOf(f)
                  /\ animations'[m0 + k].duration = clips[k].duration
            /\ \E n \in 1..Len(loads) :
                  \/ loads' = RemoveLoad(loads, n)
                  \/ /\ Len(loads') = Len(loads)
                     /\ RemoveLoad(loads', n) = RemoveLoad(loads, n)
                     /\ loads'[n].kind = loads[n].kind
                     /\ loads'[n].remaining = loads[n].remaining - 1
    ]_vars

\* the two clips of Idle.GLB were appended behind the clip of the model and
\* the clip of a file that another operation added, an operation that is
\* still in flight with a file to load
C34_Witness ==
    /\ last.op = "add"
    /\ last.a = 2
    /\ Len(loads) = 2
    /\ \E n \in 1..2 : loads[n].added = 1
    /\ Len(animations) = 4
    /\ Len(originalAnimations) = 4
    /\ animations[2].name = ClipNameOf(1)
    /\ animations[3].name = ClipNameOf(2)
    /\ animations[3].duration # animations[4].duration

\* ------------------------------------------------------------------------
\* C37  Whenever this.object.animations is not empty, this.mixer is set (a
\*      mixer is only ever created for the model that has just been
\*      installed, so a mixer that is set is the mixer of the current model):
\*      also when the model came without clips and every clip was added from
\*      an animation file, and after the model was replaced.
\* ------------------------------------------------------------------------
C37_ClipsHaveMixer == (hasObject /\ animations # << >>) => mixer

\* ------------------------------------------------------------------------
\* C38  The action that is playing, if there is one, plays a clip that is in
\*      this.object.animations of the current model: neither the deletion of
\*      the clip that plays, nor a new model, nor the In Place checkbox leaves
\*      a running action on a clip that is no longer in the list.
\* ------------------------------------------------------------------------
C38_ActiveActionInRegistry ==
    (animation # NoAnimation /\ animation.running)
        => \E k \in 1..Len(animations) : animations[k] = animation.clip

\* ------------------------------------------------------------------------
\* C39  Model files dropped on the animation list only add the clips of the
\*      files: the drop itself, whatever this.draggedItem and
\*      this.draggedIndex hold from earlier drags of items, leaves every entry
\*      of this.object.animations where it is and inserts nothing (the clips
\*      of the files are appended when their loads complete).
\* ------------------------------------------------------------------------
C39_FileDropKeepsEntries ==
    [][last'.op = "filedrop" => animations' = animations]_vars

\* ------------------------------------------------------------------------
\* C40  For every input of the PBR panel, the texture that is bound once no
\*      file is pending comes from the file selected last: a file that is
\*      decoded after a file selected later through the same input was decoded
\*      does not replace the texture of the later file, neither in the
\*      texture set of the session nor on the model.
\* ------------------------------------------------------------------------
C40_LaterSelectionWins ==
    [][(last'.op \in {"packed", "pbr"} /\ last'.b = 1)
          => /\ pbrTextures' = pbrTextures
             /\ packedTexture' = packedTexture
             /\ meshes' = meshes]_vars

====
